---- MODULE Spec2Model ----
(***************************************************************************)
(* A model of the slopstag rendering core: the compositor                  *)
(* (rendering/document.py), the Lanczos resampler (rendering/lanczos.py)   *)
(* and the layer-effect expansion bounds (effects/*.py).                   *)
(*                                                                         *)
(* Arithmetic.  The code computes in IEEE doubles; the model computes the  *)
(* same expressions in exact rationals held as integer numerators over a   *)
(* common denominator, and then applies the code's conversion to uint8     *)
(* (astype(np.uint8): truncation; int(round(..)): round half to even).     *)
(* Opacity is a rational num/OpDen.  The pixel values of the model are     *)
(* chosen so that the double computation and the exact one agree.          *)
(***************************************************************************)
EXTENDS Integers, Sequences, FiniteSets, TLC

VARIABLES
    phase,      \* which component is being exercised: "render", "conc", "lanczos", "effects"
    pc,         \* position of the call under way ("loop", "call", "done")
    canvas,     \* render_document: the local canvas buffer
    nLayers,    \* render_document: number of layers of the list iterated so far
    covered,    \* history: canvas positions inside the translated rect of a visible layer
    expected,   \* history: per position, the pixel of the last visible layer covering it
    opaqueDoc,  \* history: every layer so far is fully opaque, opacity 1, blendMode normal
    background, \* render_document: the background_color argument
    offPrev,    \* history: the canvas before the last layer, when that layer lay off the canvas
    bDst,       \* blend_layers: the dst argument
    bLayer,     \* blend_layers: the layer whose pixels, opacity and offsets are the other arguments
    bOut,       \* blend_layers: the returned array
    cdoc,       \* concurrent renders: per call, the document (its layer list)
    cpc,        \* concurrent renders: per call, its position ("start", "loop", "done")
    cidx,       \* concurrent renders: per call, the number of layers iterated
    heap,       \* concurrent renders: the canvas buffers, by buffer id
    cres,       \* concurrent renders: per call, the returned buffer
    cmix,       \* history: a call has made a step while another call was in its loop
    lSrc,       \* lanczos_resample: the src argument
    lW,         \* lanczos_resample: dst_width
    lH,         \* lanczos_resample: dst_height
    lOut,       \* lanczos_resample: the returned array, and per pixel the accumulators
    eff,        \* layer effect: the effect object
    eOut,       \* layer effect: the value returned by get_expansion
    arg,        \* the other calls: the argument(s) of the call under way
    ret,        \* the other calls: its outcome (the value returned, or the error raised)
    sessions,   \* SessionManager._sessions: the EditorSession of each registered id
    now,        \* datetime.now(), in minutes
    before,     \* history: _sessions and the clock before the last call on the manager
    preview_cache, \* filters._preview_cache: the data URL stored for each filter id
    requests,   \* preview requests: per request, its position and what it has returned
    computed    \* history: per filter id, how many times its preview was computed

renderVars == <<pc, canvas, nLayers, covered, expected, opaqueDoc, background, offPrev>>
blendVars == <<bDst, bLayer, bOut>>
concVars == <<cdoc, cpc, cidx, heap, cres, cmix>>
lanczosVars == <<lSrc, lW, lH, lOut>>
effectVars == <<eff, eOut>>
callVars == <<arg, ret>>
sessionVars == <<sessions, now, before>>
cacheVars == <<preview_cache, requests, computed>>
serviceVars == <<sessionVars, cacheVars>>
vars == <<phase, renderVars, blendVars, concVars, lanczosVars, effectVars, callVars,
          serviceVars>>

Idle == "idle"

\* Python's None
None == "None"

-----------------------------------------------------------------------------
(* Bounds of the model *)

CanvasW == 2
CanvasH == 2
MaxSide == 2
MaxOff == 2
MaxLayers == 2

-----------------------------------------------------------------------------
(* Helpers *)

Max(a, b) == IF a >= b THEN a ELSE b
Min(a, b) == IF a <= b THEN a ELSE b

\* Opacity values are OpNum / OpDen with OpNum in 0..OpDen
OpDen == 2
Opacities == 0..OpDen

\* int(x) / astype(np.uint8) of a non-negative rational num/den that fits: truncation,
\* and the wrap of the 8-bit store for a value that does not fit
ToUint8(num, den) == (num \div den) % 256

\* np.clip(x, 0, 255) of the rational num/den (den > 0), then astype(np.uint8)
ClipToUint8(num, den) ==
    IF num <= 0 THEN 0
    ELSE IF num >= 255 * den THEN 255
    ELSE num \div den

-----------------------------------------------------------------------------
(* Images: [w, h, px] with px[y][x] = <<r, g, b, a>> *)

\* background_color: Tuple[int, int, int, int] = (255, 255, 255, 255)
DefaultBackground == <<255, 255, 255, 255>>
Backgrounds == {DefaultBackground, <<10, 20, 30, 255>>}

\* the canvas positions <<x, y>>, and the pixel of an image at a position
Positions == (0..(CanvasW-1)) \X (0..(CanvasH-1))
At(img, q) == img.px[q[2]][q[1]]

Filled(w, h, p) == [w |-> w, h |-> h, px |-> [y \in 0..(h-1) |-> [x \in 0..(w-1) |-> p]]]

OpaquePalette == << <<255, 0, 0, 255>>, <<0, 0, 255, 255>>, <<12, 200, 77, 255>> >>
MixedPalette  == << <<255, 0, 0, 128>>, <<40, 90, 200, 0>>, <<0, 255, 0, 255>>, <<200, 100, 50, 128>> >>
Patterns == 0..3

\* The decoded pixels of a raster layer: pattern 0 and 1 are fully opaque images
PatternPixel(pat, x, y) ==
    IF pat < 2 THEN OpaquePalette[((pat + x + 2*y) % 3) + 1]
    ELSE MixedPalette[((pat + x + 2*y) % 4) + 1]

decode_png_data_url(w, h, pat) ==
    [w |-> w, h |-> h,
     px |-> [y \in 0..(h-1) |-> [x \in 0..(w-1) |-> PatternPixel(pat, x, y)]]]

BlendModes == {"normal", "multiply"}

\* Serialized raster layers
LayerData ==
    [width : 1..MaxSide, height : 1..MaxSide, imageData : Patterns,
     offsetX : (-MaxOff)..MaxOff, offsetY : (-MaxOff)..MaxOff,
     opacity : Opacities, visible : BOOLEAN, blendMode : BlendModes]

-----------------------------------------------------------------------------
(* blend_layers *)

\* src_alpha = (a / 255) * opacity = SrcAlphaNum / AlphaDen
AlphaDen == 255 * OpDen
SrcAlphaNum(a, opacity) == a * opacity

OutAlphaNumNoCoverage(a, opacity, b) ==
    255 * SrcAlphaNum(a, opacity) + b * AlphaDen

\* out_alpha = src_alpha + dst_alpha * (1 - src_alpha) = OutAlphaNum / (255 * AlphaDen)
OutAlphaNum(a, opacity, b) ==
    255 * SrcAlphaNum(a, opacity) + b * (AlphaDen - SrcAlphaNum(a, opacity))

\* (src * src_alpha + dst * dst_alpha * (1 - src_alpha)), over 255 * AlphaDen
OutRgbNum(c, d, a, opacity, b) ==
    255 * c * SrcAlphaNum(a, opacity) + d * b * (AlphaDen - SrcAlphaNum(a, opacity))

\* one channel of np.clip(out_rgb, 0, 255) stored as uint8
OutChannel(c, d, a, opacity, b) ==
    LET oa == OutAlphaNum(a, opacity, b)
        safe == IF oa > 0 THEN oa ELSE 255 * AlphaDen    \* np.where(out_alpha > 0, out_alpha, 1.0)
    IN  ClipToUint8(OutRgbNum(c, d, a, opacity, b), safe)

\* the pixel written for source pixel s over destination pixel d
BlendPixel(d, s, opacity) ==
    << OutChannel(s[1], d[1], s[4], opacity, d[4]),
       OutChannel(s[2], d[2], s[4], opacity, d[4]),
       OutChannel(s[3], d[3], s[4], opacity, d[4]),
       ToUint8(OutAlphaNum(s[4], opacity, d[4]), AlphaDen) >>

ResultZeros(dst) == Filled(dst.w, dst.h, <<0, 0, 0, 0>>)

\* result = dst.copy()
ResultCopy(dst) == dst

blend_layers(dst, src, opacity, blend_mode, offset_x, offset_y) ==
    LET result == ResultCopy(dst)
        x1 == Max(0, offset_x)
        y1 == Max(0, offset_y)
        x2 == Min(dst.w, offset_x + src.w)
        y2 == Min(dst.h, offset_y + src.h)
    IN  IF x1 >= x2 \/ y1 >= y2 THEN result
        ELSE [result EXCEPT !.px =
                [y \in 0..(dst.h-1) |-> [x \in 0..(dst.w-1) |->
                    IF x >= x1 /\ x < x2 /\ y >= y1 /\ y < y2
                    THEN BlendPixel(result.px[y][x], src.px[y - offset_y][x - offset_x], opacity)
                    ELSE result.px[y][x]]]]

-----------------------------------------------------------------------------
(* render_layer, render_document *)

render_layer(layer_data) ==
    [pixels |-> decode_png_data_url(layer_data.width, layer_data.height, layer_data.imageData),
     offset_x |-> layer_data.offsetX,
     offset_y |-> layer_data.offsetY]

AlwaysVisible(layer_data) == TRUE

\* layer_data.get("visible", True)
IsVisible(layer_data) == layer_data.visible

\* the variables of the components a specification does not exercise
IdleRender ==
    /\ canvas = Idle /\ nLayers = 0 /\ covered = {} /\ expected = Idle
    /\ opaqueDoc = TRUE /\ background = Idle /\ offPrev = Idle
IdleBlend == bDst = Idle /\ bLayer = Idle /\ bOut = Idle
IdleConc ==
    /\ cdoc = Idle /\ cpc = Idle /\ cidx = Idle /\ heap = Idle /\ cres = Idle /\ cmix = FALSE
IdleLanczos == lSrc = Idle /\ lW = 0 /\ lH = 0 /\ lOut = Idle
IdleEffect == eff = Idle /\ eOut = Idle
IdleCall == arg = Idle /\ ret = Idle
IdleSession == sessions = Idle /\ now = 0 /\ before = Idle
IdleCache == preview_cache = Idle /\ requests = Idle /\ computed = Idle
IdleService == IdleSession /\ IdleCache

\* the loop body, had it composited only the layers of blendMode normal
CompositeNormalOnly(cv, layer_data) ==
    LET r == render_layer(layer_data)
    IN  IF layer_data.blendMode = "normal"
        THEN blend_layers(cv, r.pixels, layer_data.opacity, layer_data.blendMode,
                          r.offset_x, r.offset_y)
        ELSE cv

\* one iteration of the loop body over a visible layer
CompositeLayer(cv, layer_data) ==
    LET r == render_layer(layer_data)
    IN  blend_layers(cv, r.pixels, layer_data.opacity, layer_data.blendMode,
                     r.offset_x, r.offset_y)

\* positions of the canvas inside the layer's translated rectangle
LayerRect(layer_data) ==
    {q \in (0..(CanvasW-1)) \X (0..(CanvasH-1)) :
        /\ q[1] >= layer_data.offsetX /\ q[1] < layer_data.offsetX + layer_data.width
        /\ q[2] >= layer_data.offsetY /\ q[2] < layer_data.offsetY + layer_data.height}

FullyOpaque(layer_data) ==
    /\ layer_data.imageData < 2
    /\ layer_data.opacity = OpDen
    /\ layer_data.blendMode = "normal"

InitRender ==
    /\ phase = "render"
    /\ pc = "loop"
    /\ background \in Backgrounds
    /\ canvas = Filled(CanvasW, CanvasH, background)
    /\ nLayers = 0
    /\ covered = {}
    /\ expected = Filled(CanvasW, CanvasH, background).px
    /\ opaqueDoc = TRUE
    /\ offPrev = canvas
    /\ IdleBlend /\ IdleConc /\ IdleLanczos /\ IdleEffect /\ IdleService /\ IdleCall

\* for layer_data in layers: if not layer_data.get("visible", True): continue
RenderSkipLayer ==
    /\ phase = "render" /\ pc = "loop" /\ nLayers < MaxLayers
    /\ \E layer_data \in LayerData :
        /\ ~IsVisible(layer_data)
        /\ opaqueDoc' = (opaqueDoc /\ FullyOpaque(layer_data))
    /\ nLayers' = nLayers + 1
    /\ offPrev' = canvas
    /\ UNCHANGED <<phase, pc, canvas, covered, expected, background,
                   blendVars, concVars, lanczosVars, effectVars, serviceVars, callVars>>

\* for layer_data in layers: render the layer and blend it onto the canvas
RenderBlendLayer ==
    /\ phase = "render" /\ pc = "loop" /\ nLayers < MaxLayers
    /\ \E layer_data \in LayerData :
        /\ IsVisible(layer_data)
        /\ canvas' = CompositeLayer(canvas, layer_data)
        /\ covered' = covered \cup (IF layer_data.visible THEN LayerRect(layer_data) ELSE {})
        /\ expected' = [y \in 0..(CanvasH-1) |-> [x \in 0..(CanvasW-1) |->
                          IF layer_data.visible /\ <<x, y>> \in LayerRect(layer_data)
                          THEN PatternPixel(layer_data.imageData,
                                            x - layer_data.offsetX, y - layer_data.offsetY)
                          ELSE expected[y][x]]]
        /\ opaqueDoc' = (opaqueDoc /\ FullyOpaque(layer_data))
        /\ offPrev' = IF LayerRect(layer_data) = {} THEN canvas ELSE canvas'
    /\ nLayers' = nLayers + 1
    /\ UNCHANGED <<phase, pc, background, blendVars, concVars, lanczosVars, effectVars,
                   serviceVars, callVars>>

\* return canvas
RenderReturn ==
    /\ phase = "render" /\ pc = "loop"
    /\ pc' = "done"
    /\ UNCHANGED <<phase, canvas, nLayers, covered, expected, opaqueDoc, background, offPrev,
                   blendVars, concVars, lanczosVars, effectVars, serviceVars, callVars>>

NextRender == RenderSkipLayer \/ RenderBlendLayer \/ RenderReturn

-----------------------------------------------------------------------------
(* blend_layers on its own: dst and the layer are drawn from bounded sets *)

DstCanvases ==
    {decode_png_data_url(CanvasW, CanvasH, pat) : pat \in Patterns}
        \cup {Filled(CanvasW, CanvasH, p) : p \in Backgrounds \cup {<<0, 0, 0, 0>>, <<0, 0, 255, 128>>}}

InitBlend ==
    /\ phase = "blend"
    /\ bDst \in DstCanvases
    /\ bLayer \in {l \in LayerData : l.visible /\ l.blendMode = "normal"}
    /\ bOut = Idle
    /\ pc = "call"
    /\ IdleRender /\ IdleConc /\ IdleLanczos /\ IdleEffect /\ IdleService /\ IdleCall

BlendCall ==
    /\ phase = "blend" /\ pc = "call"
    /\ bOut' = CompositeLayer(bDst, bLayer)
    /\ pc' = "done"
    /\ UNCHANGED <<phase, bDst, bLayer, canvas, nLayers, covered, expected, opaqueDoc,
                   background, offPrev, concVars, lanczosVars, effectVars, serviceVars,
                   callVars>>

NextBlend == BlendCall

-----------------------------------------------------------------------------
(* render_document as a whole, and two calls of it running interleaved *)

RECURSIVE RenderFrom(_, _, _)
RenderFrom(cv, layers, i) ==
    IF i > Len(layers) THEN cv
    ELSE RenderFrom(IF IsVisible(layers[i]) THEN CompositeLayer(cv, layers[i]) ELSE cv,
                    layers, i + 1)

render_document(document_data, background_color) ==
    RenderFrom(Filled(CanvasW, CanvasH, background_color), document_data, 1)

Calls == {1, 2}

ConcLayers ==
    {l \in LayerData :
        /\ l.width = MaxSide /\ l.height = 1 /\ l.offsetY = 0 /\ l.offsetX \in {0, 1}
        /\ l.imageData = 2 /\ l.opacity = 1 /\ l.blendMode = "normal"}

ConcDocs == UNION {[1..n -> ConcLayers] : n \in 0..MaxLayers}

SharedCanvas(p) == 1

\* canvas = np.zeros(...): each call allocates the buffer it composites into, and
\* blend_layers returns a fresh array that the call binds to its own local name
CanvasOf(p) == p

InitConc ==
    /\ phase = "conc"
    /\ pc = Idle
    /\ cdoc \in [Calls -> ConcDocs]
    /\ cpc = [p \in Calls |-> "start"]
    /\ cidx = [p \in Calls |-> 0]
    /\ heap = [b \in Calls |-> Filled(CanvasW, CanvasH, <<0, 0, 0, 0>>)]
    /\ cres = [p \in Calls |-> Filled(CanvasW, CanvasH, <<0, 0, 0, 0>>)]
    /\ cmix = FALSE
    /\ IdleRender /\ IdleBlend /\ IdleLanczos /\ IdleEffect /\ IdleService /\ IdleCall

\* canvas = np.zeros((height, width, 4)); canvas[:, :] = background_color
ConcStart(p) ==
    /\ phase = "conc" /\ cpc[p] = "start"
    /\ heap' = [heap EXCEPT ![CanvasOf(p)] = Filled(CanvasW, CanvasH, DefaultBackground)]
    /\ cpc' = [cpc EXCEPT ![p] = "loop"]
    /\ UNCHANGED <<phase, pc, cdoc, cidx, cres, cmix,
                   renderVars, blendVars, lanczosVars, effectVars, serviceVars, callVars>>

\* one iteration of: for layer_data in layers
ConcLayer(p) ==
    /\ phase = "conc" /\ cpc[p] = "loop" /\ cidx[p] < Len(cdoc[p])
    /\ LET layer_data == cdoc[p][cidx[p] + 1]
       IN  heap' = IF IsVisible(layer_data)
                   THEN [heap EXCEPT ![CanvasOf(p)] = CompositeLayer(heap[CanvasOf(p)], layer_data)]
                   ELSE heap
    /\ cidx' = [cidx EXCEPT ![p] = @ + 1]
    /\ cmix' = (cmix \/ \E q \in Calls \ {p} : cpc[q] = "loop")
    /\ UNCHANGED <<phase, pc, cdoc, cpc, cres, renderVars, blendVars, lanczosVars,
                   effectVars, serviceVars, callVars>>

\* return canvas
ConcReturn(p) ==
    /\ phase = "conc" /\ cpc[p] = "loop" /\ cidx[p] = Len(cdoc[p])
    /\ cres' = [cres EXCEPT ![p] = heap[CanvasOf(p)]]
    /\ cpc' = [cpc EXCEPT ![p] = "done"]
    /\ UNCHANGED <<phase, pc, cdoc, cidx, heap, cmix,
                   renderVars, blendVars, lanczosVars, effectVars, serviceVars, callVars>>

NextConc == \E p \in Calls : ConcStart(p) \/ ConcLayer(p) \/ ConcReturn(p)

-----------------------------------------------------------------------------
(* lanczos_kernel, lanczos_resample *)

\* a: int = 3
LanczosA == 3

\* lanczos_kernel is tabulated: KernelTable[i + 1] is the kernel at i / KernelGrid,
\* scaled by 75 * pi^2 / 2 (about 370.11) and rounded.  With that scale the values
\* at 1/2, 3/2 and 5/2 (index 12, 36, 60), the only ones an identity resample
\* uses, are exactly 225, -50 and 9.  Every output of lanczos_resample is a quotient
\* of two sums of weights, so the scale cancels.
KernelGrid == 24
KernelTable ==
    << 370, 369, 365, 360, 352, 342, 329, 315, 300, 283, 265, 245,
       225, 204, 183, 162, 141, 120, 100, 81, 62, 45, 28, 13,
       0, -12, -22, -31, -39, -45, -49, -52, -54, -55, -54, -52,
       -50, -47, -43, -39, -35, -30, -25, -20, -16, -11, -7, -3,
       0, 3, 5, 8, 9, 10, 11, 11, 12, 11, 11, 10,
       9, 8, 7, 6, 5, 4, 3, 2, 1, 1, 0, 0,
       0 >>

Abs(n) == IF n < 0 THEN -n ELSE n

\* lanczos_kernel(x, a) at x = num / den (den > 0)
lanczos_kernel(num, den) ==
    IF num = 0 THEN KernelTable[1]
    ELSE IF Abs(num) > LanczosA * den THEN 0
    ELSE KernelTable[((Abs(num) * KernelGrid) \div den) + 1]

\* np.floor and np.ceil of num / den (den > 0)
Floor(num, den) == num \div den
Ceil(num, den) == -((-num) \div den)

\* Along one axis with s source and d destination pixels, for destination index i:
\*   src_center = (i + 0.5) * s / d,   filter_scale = max(1, s / d),
\*   support = a * filter_scale
\* the first and last source index of the window
WindowLo(s, d, i) == Max(0, Floor((2*i + 1) * s - 2 * LanczosA * Max(s, d), 2 * d))
WindowHi(s, d, i) == Min(s - 1, Ceil((2*i + 1) * s + 2 * LanczosA * Max(s, d), 2 * d))

\* lanczos_kernel((j - src_center) / filter_scale, a) for source index j
AxisWeight(s, d, i, j) == lanczos_kernel(2 * d * j - (2*i + 1) * s, 2 * Max(s, d))

\* The alpha values of the model are multiples of AlphaStep, so that
\* src_alpha = a / 255 is (a / AlphaStep) / AlphaParts
AlphaStep == 85
AlphaParts == 255 \div AlphaStep

RECURSIVE SetSum(_, _)
SetSum(f, S) ==
    IF S = {} THEN 0
    ELSE LET q == CHOOSE q \in S : TRUE IN f[q] + SetSum(f, S \ {q})

\* the source positions <<sx, sy>> the two loops visit for destination pixel (dx, dy)
Window(src, dw, dh, dx, dy) ==
    (WindowLo(src.w, dw, dx)..WindowHi(src.w, dw, dx))
        \X (WindowLo(src.h, dh, dy)..WindowHi(src.h, dh, dy))

\* weight = wx * wy
Weight(src, dw, dh, dx, dy, q) ==
    AxisWeight(src.w, dw, dx, q[1]) * AxisWeight(src.h, dh, dy, q[2])

\* src[sy, sx, c] * src_alpha * weight, over AlphaParts
ColourTerm(c, a, weight) == c * (a \div AlphaStep) * weight

\* the accumulators r, g, b, alpha (over AlphaParts) and weight_sum after the loops
Accumulate(src, dw, dh, dx, dy) ==
    LET win == Window(src, dw, dh, dx, dy)
        wt == [q \in win |-> Weight(src, dw, dh, dx, dy, q)]
        chan(c) == SetSum([q \in win |-> ColourTerm(At(src, q)[c], At(src, q)[4], wt[q])], win)
    IN  [r |-> chan(1), g |-> chan(2), b |-> chan(3),
         alpha |-> SetSum([q \in win |-> (At(src, q)[4] \div AlphaStep) * wt[q]], win),
         weight_sum |-> SetSum(wt, win)]

\* int(round(max(0, min(255, num / den)))), den > 0: Python rounds halves to even
RoundClamped(num, den) ==
    IF num <= 0 THEN 0
    ELSE IF num >= 255 * den THEN 255
    ELSE LET quo == num \div den
             rem == num % den
         IN  IF 2 * rem < den THEN quo
             ELSE IF 2 * rem > den THEN quo + 1
             ELSE IF quo % 2 = 0 THEN quo ELSE quo + 1

FixedTotal(weight_sum) == KernelTable[1] * KernelTable[1]

\* alpha / weight_sum * 255: the divisor is the sum of the weights actually used
AlphaDivisor(weight_sum) == weight_sum

ColourDivisorWeights(acc) == acc.weight_sum * AlphaParts

\* inv_alpha = 1.0 / alpha: the colour sums are divided by the accumulated alpha
ColourDivisor(acc) == acc.alpha

\* the destination pixel written from the accumulators
ResamplePixel(acc) ==
    IF acc.weight_sum > 0 /\ acc.alpha > 0
    THEN << RoundClamped(acc.r, ColourDivisor(acc)),
            RoundClamped(acc.g, ColourDivisor(acc)),
            RoundClamped(acc.b, ColourDivisor(acc)),
            RoundClamped(acc.alpha * AlphaStep, AlphaDivisor(acc.weight_sum)) >>
    ELSE <<0, 0, 0, 0>>

lanczos_resample(src, dst_width, dst_height) ==
    [w |-> dst_width, h |-> dst_height,
     px |-> [dy \in 0..(dst_height-1) |-> [dx \in 0..(dst_width-1) |->
                ResamplePixel(Accumulate(src, dst_width, dst_height, dx, dy))]]]

\* the accumulated alpha of every destination pixel
AccumulatedAlpha(src, dst_width, dst_height) ==
    [dy \in 0..(dst_height-1) |-> [dx \in 0..(dst_width-1) |->
        Accumulate(src, dst_width, dst_height, dx, dy).alpha]]

\* compute_pixel_diff: total_diff, and max_total = h * w * 255 * 4
TotalDiff(img1, img2) ==
    LET pos == (0..(img1.w-1)) \X (0..(img1.h-1))
    IN  SetSum([q \in pos |->
                   Abs(At(img1, q)[1] - At(img2, q)[1]) + Abs(At(img1, q)[2] - At(img2, q)[2])
                 + Abs(At(img1, q)[3] - At(img2, q)[3]) + Abs(At(img1, q)[4] - At(img2, q)[4])],
               pos)
MaxTotalRgb(img1) == img1.h * img1.w * 255 * 3

\* max_total = img1.shape[0] * img1.shape[1] * max_diff_per_pixel
MaxTotal(img1) == img1.h * img1.w * 255 * 4

\* images_match(img1, img2, tolerance) with tolerance = tolPercent / 100
images_match(img1, img2, tolPercent) ==
    IF MaxTotal(img1) > 0
    THEN TotalDiff(img1, img2) * 100 <= tolPercent * MaxTotal(img1)
    ELSE TRUE

LMaxW == 3
LMaxH == 2

LPalette == {<<200, 100, 50, 255>>, <<200, 100, 50, 85>>, <<0, 60, 255, 0>>, <<0, 60, 255, 255>>}

LImages ==
    UNION {{[w |-> w, h |-> h, px |-> f] : f \in [0..(h-1) -> [0..(w-1) -> LPalette]]} :
              <<w, h>> \in (1..LMaxW) \X (1..LMaxH)}

InitLanczos ==
    /\ phase = "lanczos"
    /\ pc = "call"
    /\ lSrc \in LImages
    /\ lW \in 1..LMaxW
    /\ lH \in 1..LMaxH
    /\ lOut = Idle
    /\ IdleRender /\ IdleBlend /\ IdleConc /\ IdleEffect /\ IdleService /\ IdleCall

LanczosCall ==
    /\ phase = "lanczos" /\ pc = "call"
    /\ lOut' = [img |-> lanczos_resample(lSrc, lW, lH),
                alpha |-> AccumulatedAlpha(lSrc, lW, lH)]
    /\ pc' = "done"
    /\ UNCHANGED <<phase, lSrc, lW, lH, canvas, nLayers, covered, expected, opaqueDoc,
                   background, offPrev, blendVars, concVars, effectVars, serviceVars, callVars>>

NextLanczos == LanczosCall

-----------------------------------------------------------------------------
(* Layer effects: get_expansion *)

\* A blur is held in halves (blur2 = 2 * blur), so that fractional values exist
Offsets == {-15, -10, -1, 0, 4, 5, 10}
Blurs2 == {0, 1, 3, 10, 16}
Spreads == {-2, 0, 3}
Sizes == {0, 1, 3, 5, 6}
StrokePositions == {"outside", "inside", "center"}

DropShadowEffects ==
    [type : {"dropShadow"}, offset_x : Offsets, offset_y : Offsets,
     blur2 : Blurs2, spread : Spreads]

StrokeEffects == [type : {"stroke"}, size : Sizes, position : StrokePositions]

GlowSpreads == {-5, 0, 3}
BevelSizes == {-2, 0, 5}
BevelStyles == {"innerBevel", "outerBevel", "emboss", "pillowEmboss"}

OuterGlowEffects == [type : {"outerGlow"}, blur2 : Blurs2, spread : GlowSpreads]

BevelEmbossEffects == [type : {"bevelEmboss"}, style : BevelStyles, size : BevelSizes]

\* innerShadow, innerGlow, colorOverlay: no parameter is read by get_expansion
ClippedEffects == [type : {"innerShadow", "innerGlow", "colorOverlay"}]

EffectVariants ==
    DropShadowEffects \cup StrokeEffects \cup OuterGlowEffects
        \cup BevelEmbossEffects \cup ClippedEffects

\* the same expansion on all four sides
Uniform(n) == [left |-> n, top |-> n, right |-> n, bottom |-> n]

\* int(x) of the rational num / den (den > 0): truncation towards zero
IntOf(num, den) == IF num >= 0 THEN num \div den ELSE -((-num) \div den)

DropShadowExpansionNoOffset(e) ==
    Uniform(IntOf(e.blur2 * 3, 2) + Abs(e.spread))

\* DropShadowEffect.get_expansion
DropShadowExpansion(e) ==
    LET expand == IntOf(e.blur2 * 3, 2) + Abs(e.spread)
    IN  [left   |-> Max(0, expand - e.offset_x),
         top    |-> Max(0, expand - e.offset_y),
         right  |-> Max(0, expand + e.offset_x),
         bottom |-> Max(0, expand + e.offset_y)]

\* StrokeEffect.get_expansion
StrokeExpansion(e) ==
    IF e.position = "outside" THEN Uniform(e.size)
    ELSE IF e.position = "center" THEN Uniform(IntOf(e.size, 2) + 1)
    ELSE Uniform(0)

\* OuterGlowEffect.get_expansion
OuterGlowExpansion(e) == Uniform(IntOf(e.blur2 * 3, 2) + e.spread)

\* BevelEmbossEffect.get_expansion
BevelEmbossExpansion(e) ==
    IF e.style = "outerBevel" THEN Uniform(IntOf(e.size, 1)) ELSE Uniform(0)

get_expansion(e) ==
    IF e.type = "dropShadow" THEN DropShadowExpansion(e)
    ELSE IF e.type = "stroke" THEN StrokeExpansion(e)
    ELSE IF e.type = "outerGlow" THEN OuterGlowExpansion(e)
    ELSE IF e.type = "bevelEmboss" THEN BevelEmbossExpansion(e)
    ELSE Uniform(0)

InitEffect ==
    /\ phase = "effects"
    /\ pc = "call"
    /\ eff \in EffectVariants
    /\ eOut = Uniform(0)
    /\ IdleRender /\ IdleBlend /\ IdleConc /\ IdleLanczos /\ IdleCall /\ IdleService

EffectGetExpansion ==
    /\ phase = "effects" /\ pc = "call"
    /\ eOut' = get_expansion(eff)
    /\ pc' = "done"
    /\ UNCHANGED <<phase, eff, canvas, nLayers, covered, expected, opaqueDoc,
                   background, offPrev, blendVars, concVars, lanczosVars, callVars,
                   serviceVars>>

NextEffect == EffectGetExpansion

-----------------------------------------------------------------------------
(* Layer effects: the expansion of a layer carrying several effects.  The       *)
(* layer-side code is not part of the Python sources; this section follows the  *)
(* specification's description of it and uses the get_expansion of the code.    *)

MaxEffects == 3

\* the effects a layer may carry, each enabled or not
LayerEffectPool ==
    { e @@ [enabled |-> b] :
        e \in { [type |-> "dropShadow", offset_x |-> 5, offset_y |-> 4, blur2 |-> 6,
                 spread |-> 0],
                [type |-> "outerGlow", blur2 |-> 20, spread |-> 0],
                [type |-> "stroke", size |-> 2, position |-> "outside"],
                [type |-> "innerGlow"] },
        b \in BOOLEAN }

EffectLists == UNION { [1..n -> LayerEffectPool] : n \in 0..MaxEffects }

Sides == {"left", "top", "right", "bottom"}

RECURSIVE LayerExpansionSum(_)
LayerExpansionSum(effects) ==
    IF effects = << >> THEN Uniform(0)
    ELSE LET rest == LayerExpansionSum(Tail(effects))
             e == Head(effects)
         IN  IF e.enabled
             THEN [sd \in Sides |-> rest[sd] + get_expansion(e)[sd]]
             ELSE rest

\* per side, the largest margin of the enabled effects; zero without any
RECURSIVE LayerExpansion(_)
LayerExpansion(effects) ==
    IF effects = << >> THEN Uniform(0)
    ELSE LET rest == LayerExpansion(Tail(effects))
             e == Head(effects)
         IN  IF e.enabled
             THEN [sd \in Sides |-> Max(rest[sd], get_expansion(e)[sd])]
             ELSE rest

InitLayer ==
    /\ phase = "layer"
    /\ pc = "call"
    /\ arg \in EffectLists
    /\ ret = Idle
    /\ IdleRender /\ IdleBlend /\ IdleConc /\ IdleLanczos /\ IdleEffect /\ IdleService

\* the visual bounds of the layer are computed; the effect list is left as it is
LayerVisualBounds ==
    /\ phase = "layer" /\ pc = "call"
    /\ ret' = [expansion |-> LayerExpansion(arg), effects |-> arg]
    /\ pc' = "done"
    /\ UNCHANGED <<phase, arg, canvas, nLayers, covered, expected, opaqueDoc, background,
                   offPrev, blendVars, concVars, lanczosVars, effectVars, serviceVars>>

NextLayer == LayerVisualBounds

-----------------------------------------------------------------------------
(* Layer effects: to_dict, from_dict, deserialize_effect *)

\* str(uuid.uuid4()): some non-empty string
Uuids == {"uuid-1", "uuid-2"}

\* opacities are held in percent
EffectBase ==
    [id : Uuids, enabled : BOOLEAN, blend_mode : {"normal", "multiply"}, opacity : {100, 50}]

\* the variant parameters: the defaults of the dataclass fields, and other values
DefaultParams(type) ==
    CASE type = "dropShadow" ->
            [offset_x |-> 4, offset_y |-> 4, blur |-> 5, spread |-> 0,
             color |-> "#000000", color_opacity |-> 75]
      [] type = "innerShadow" ->
            [offset_x |-> 2, offset_y |-> 2, blur |-> 5, choke |-> 0,
             color |-> "#000000", color_opacity |-> 75]
      [] type = "outerGlow" ->
            [blur |-> 10, spread |-> 0, color |-> "#FFFF00", color_opacity |-> 75]
      [] type = "innerGlow" ->
            [blur |-> 10, choke |-> 0, color |-> "#FFFF00", color_opacity |-> 75,
             source |-> "edge"]
      [] type = "bevelEmboss" ->
            [style |-> "innerBevel", depth |-> 3, direction |-> "up", size |-> 5,
             soften |-> 0, angle |-> 120, altitude |-> 30,
             highlight_color |-> "#FFFFFF", highlight_opacity |-> 75,
             shadow_color |-> "#000000", shadow_opacity |-> 75]
      [] type = "stroke" ->
            [size |-> 3, position |-> "outside", color |-> "#000000",
             color_opacity |-> 100]
      [] type = "colorOverlay" -> [color |-> "#FF0000"]

OtherParams(type) ==
    CASE type = "dropShadow" ->
            [offset_x |-> -7, offset_y |-> 9, blur |-> 2, spread |-> 1,
             color |-> "#112233", color_opacity |-> 40]
      [] type = "innerShadow" ->
            [offset_x |-> -7, offset_y |-> 9, blur |-> 3, choke |-> 1,
             color |-> "#112233", color_opacity |-> 40]
      [] type = "outerGlow" ->
            [blur |-> 4, spread |-> 6, color |-> "#112233", color_opacity |-> 40]
      [] type = "innerGlow" ->
            [blur |-> 4, choke |-> 6, color |-> "#112233", color_opacity |-> 40,
             source |-> "center"]
      [] type = "bevelEmboss" ->
            [style |-> "outerBevel", depth |-> 1, direction |-> "down", size |-> 7,
             soften |-> 2, angle |-> 45, altitude |-> 60,
             highlight_color |-> "#112233", highlight_opacity |-> 40,
             shadow_color |-> "#445566", shadow_opacity |-> 20]
      [] type = "stroke" ->
            [size |-> 6, position |-> "center", color |-> "#112233",
             color_opacity |-> 40]
      [] type = "colorOverlay" -> [color |-> "#112233"]

\* 'type' -> class
effect_registry ==
    {"dropShadow", "innerShadow", "outerGlow", "innerGlow", "bevelEmboss", "stroke",
     "colorOverlay"}

\* cls(...): the effect objects
EffectObjects ==
    UNION { { [type |-> t] @@ b @@ q :
                b \in EffectBase, q \in {DefaultParams(t), OtherParams(t)} } :
            t \in effect_registry }

BaseGetParams(e) == << >>

\* get_params of each variant
get_params(e) ==
    CASE e.type = "dropShadow" ->
            [offsetX |-> e.offset_x, offsetY |-> e.offset_y, blur |-> e.blur,
             spread |-> e.spread, color |-> e.color, colorOpacity |-> e.color_opacity]
      [] e.type = "innerShadow" ->
            [offsetX |-> e.offset_x, offsetY |-> e.offset_y, blur |-> e.blur,
             choke |-> e.choke, color |-> e.color, colorOpacity |-> e.color_opacity]
      [] e.type = "outerGlow" ->
            [blur |-> e.blur, spread |-> e.spread, color |-> e.color,
             colorOpacity |-> e.color_opacity]
      [] e.type = "innerGlow" ->
            [blur |-> e.blur, choke |-> e.choke, color |-> e.color,
             colorOpacity |-> e.color_opacity, source |-> e.source]
      [] e.type = "bevelEmboss" ->
            [style |-> e.style, depth |-> e.depth, direction |-> e.direction,
             size |-> e.size, soften |-> e.soften, angle |-> e.angle,
             altitude |-> e.altitude, highlightColor |-> e.highlight_color,
             highlightOpacity |-> e.highlight_opacity, shadowColor |-> e.shadow_color,
             shadowOpacity |-> e.shadow_opacity]
      [] e.type = "stroke" ->
            [size |-> e.size, position |-> e.position, color |-> e.color,
             colorOpacity |-> e.color_opacity]
      [] e.type = "colorOverlay" -> [color |-> e.color]

\* LayerEffect.to_dict
to_dict(e) ==
    [id |-> e.id, type |-> e.type, enabled |-> e.enabled, blendMode |-> e.blend_mode,
     opacity |-> e.opacity] @@ get_params(e)

\* data.get(key, default)
Get(data, key, default) == IF key \in DOMAIN data THEN data[key] ELSE default

\* the keyword arguments every variant's from_dict passes for the base fields
FromDictBase(data) ==
    [id |-> Get(data, "id", None),
     enabled |-> Get(data, "enabled", TRUE),
     blend_mode |-> Get(data, "blendMode", "normal"),
     opacity |-> Get(data, "opacity", 100)]

\* the from_dict of each variant: the variant's keyword arguments
FromDictParams(type, data) ==
    CASE type = "dropShadow" ->
            [offset_x |-> Get(data, "offsetX", 4), offset_y |-> Get(data, "offsetY", 4),
             blur |-> Get(data, "blur", 5), spread |-> Get(data, "spread", 0),
             color |-> Get(data, "color", "#000000"),
             color_opacity |-> Get(data, "colorOpacity", 75)]
      [] type = "innerShadow" ->
            [offset_x |-> Get(data, "offsetX", 2), offset_y |-> Get(data, "offsetY", 2),
             blur |-> Get(data, "blur", 5), choke |-> Get(data, "choke", 0),
             color |-> Get(data, "color", "#000000"),
             color_opacity |-> Get(data, "colorOpacity", 75)]
      [] type = "outerGlow" ->
            [blur |-> Get(data, "blur", 10), spread |-> Get(data, "spread", 0),
             color |-> Get(data, "color", "#FFFF00"),
             color_opacity |-> Get(data, "colorOpacity", 75)]
      [] type = "innerGlow" ->
            [blur |-> Get(data, "blur", 10), choke |-> Get(data, "choke", 0),
             color |-> Get(data, "color", "#FFFF00"),
             color_opacity |-> Get(data, "colorOpacity", 75),
             source |-> Get(data, "source", "edge")]
      [] type = "bevelEmboss" ->
            [style |-> Get(data, "style", "innerBevel"), depth |-> Get(data, "depth", 3),
             direction |-> Get(data, "direction", "up"), size |-> Get(data, "size", 5),
             soften |-> Get(data, "soften", 0), angle |-> Get(data, "angle", 120),
             altitude |-> Get(data, "altitude", 30),
             highlight_color |-> Get(data, "highlightColor", "#FFFFFF"),
             highlight_opacity |-> Get(data, "highlightOpacity", 75),
             shadow_color |-> Get(data, "shadowColor", "#000000"),
             shadow_opacity |-> Get(data, "shadowOpacity", 75)]
      [] type = "stroke" ->
            [size |-> Get(data, "size", 3), position |-> Get(data, "position", "outside"),
             color |-> Get(data, "color", "#000000"),
             color_opacity |-> Get(data, "colorOpacity", 100)]
      [] type = "colorOverlay" -> [color |-> Get(data, "color", "#FF0000")]

\* cls.from_dict(data) of the class registered for type
from_dict(type, data) == [type |-> type] @@ FromDictBase(data) @@ FromDictParams(type, data)

\* deserialize_effect: found is FALSE when None is returned
deserialize_effect(data) ==
    LET effect_type == Get(data, "type", None)
    IN  IF effect_type \notin effect_registry
        THEN [found |-> FALSE, effect |-> None]
        ELSE [found |-> TRUE, effect |-> from_dict(effect_type, data)]

\* keys that a dictionary handed to deserialize_effect may lack
OptionalKeys == {"id", "type", "enabled", "blur"}

Without(data, key) == [k \in DOMAIN data \ {key} |-> data[k]]

InitSerial ==
    /\ phase = "serial"
    /\ pc = "object"
    /\ arg \in EffectObjects
    /\ ret = Idle
    /\ IdleRender /\ IdleBlend /\ IdleConc /\ IdleLanczos /\ IdleEffect /\ IdleService

\* e.to_dict()
SerialToDict ==
    /\ phase = "serial" /\ pc = "object"
    /\ ret' = [data |-> to_dict(arg), found |-> FALSE, effect |-> None]
    /\ pc' = "dict"
    /\ UNCHANGED <<phase, arg, canvas, nLayers, covered, expected, opaqueDoc, background,
                   offPrev, blendVars, concVars, lanczosVars, effectVars, serviceVars>>

\* the dictionary comes without one of its keys
SerialDropKey ==
    /\ phase = "serial" /\ pc = "dict"
    /\ \E key \in OptionalKeys \cap DOMAIN ret.data :
          ret' = [ret EXCEPT !.data = Without(ret.data, key)]
    /\ UNCHANGED <<phase, pc, arg, canvas, nLayers, covered, expected, opaqueDoc, background,
                   offPrev, blendVars, concVars, lanczosVars, effectVars, serviceVars>>

\* deserialize_effect(data)
SerialDeserialize ==
    /\ phase = "serial" /\ pc = "dict"
    /\ ret' = [data |-> ret.data] @@ deserialize_effect(ret.data)
    /\ pc' = "done"
    /\ UNCHANGED <<phase, arg, canvas, nLayers, covered, expected, opaqueDoc, background,
                   offPrev, blendVars, concVars, lanczosVars, effectVars, serviceVars>>

NextSerial == SerialToDict \/ SerialDropKey \/ SerialDeserialize

-----------------------------------------------------------------------------
(* compute_pixel_diff and images_match as calls that may raise *)

DiffMaxW == 2
DiffMaxH == 2

Black == <<0, 0, 0, 255>>
White == <<255, 255, 255, 255>>
DiffPalette == {Black, White, <<200, 100, 50, 85>>}

\* RGBA arrays of shape (h, w, 4); w = 0 gives an array without pixels
DiffImages ==
    UNION { { [w |-> w, h |-> h, px |-> f] :
                f \in [0..(h-1) -> [0..(w-1) -> DiffPalette]] } :
            <<w, h>> \in (0..DiffMaxW) \X (1..DiffMaxH) }

\* img.shape
ShapeOf(img) == <<img.h, img.w, 4>>

SimilarityNum(img1, img2) == MaxTotal(img1) - TotalDiff(img1, img2)

\* numerator of diff_ratio = total_diff / max_total
DiffRatioNum(img1, img2) == TotalDiff(img1, img2)

\* compute_pixel_diff: the error raised, or the diff_ratio returned as num / den
\* (0 / 1 for the 0.0 of an array without pixels)
compute_pixel_diff(img1, img2) ==
    IF ShapeOf(img1) # ShapeOf(img2)
    THEN [error |-> "ValueError", returned |-> FALSE, num |-> 0, den |-> 1]
    ELSE IF MaxTotal(img1) > 0
    THEN [error |-> None, returned |-> TRUE,
          num |-> DiffRatioNum(img1, img2), den |-> MaxTotal(img1)]
    ELSE [error |-> None, returned |-> TRUE, num |-> 0, den |-> 1]

MatchSwallowsError(img1, img2, tolPercent) ==
    LET d == compute_pixel_diff(img1, img2)
    IN  [error |-> None, returned |-> TRUE,
         match |-> d.returned /\ d.num * 100 <= tolPercent * d.den]

\* images_match as a call: the error of compute_pixel_diff passes through
ImagesMatchCall(img1, img2, tolPercent) ==
    LET d == compute_pixel_diff(img1, img2)
    IN  IF d.error # None
        THEN [error |-> d.error, returned |-> FALSE, match |-> FALSE]
        ELSE [error |-> None, returned |-> TRUE,
              match |-> d.num * 100 <= tolPercent * d.den]

\* tolerances, in percent
Tolerances == {1, 50}

InitDiff ==
    /\ phase = "diff"
    /\ pc = "call"
    /\ arg \in [img1 : DiffImages, img2 : DiffImages]
    /\ ret = Idle
    /\ IdleRender /\ IdleBlend /\ IdleConc /\ IdleLanczos /\ IdleEffect /\ IdleService

\* compute_pixel_diff(img1, img2); the arguments are only read
DiffCall ==
    /\ phase = "diff" /\ pc = "call"
    /\ ret' = [fn |-> "compute_pixel_diff", out |-> compute_pixel_diff(arg.img1, arg.img2),
               img1 |-> arg.img1, img2 |-> arg.img2]
    /\ pc' = "done"
    /\ UNCHANGED <<phase, arg, canvas, nLayers, covered, expected, opaqueDoc, background,
                   offPrev, blendVars, concVars, lanczosVars, effectVars, serviceVars>>

\* images_match(img1, img2, tolerance)
MatchCall ==
    /\ phase = "diff" /\ pc = "call"
    /\ \E tol \in Tolerances :
          ret' = [fn |-> "images_match", out |-> ImagesMatchCall(arg.img1, arg.img2, tol),
                  img1 |-> arg.img1, img2 |-> arg.img2]
    /\ pc' = "done"
    /\ UNCHANGED <<phase, arg, canvas, nLayers, covered, expected, opaqueDoc, background,
                   offPrev, blendVars, concVars, lanczosVars, effectVars, serviceVars>>

NextDiff == DiffCall \/ MatchCall

-----------------------------------------------------------------------------
(* render_vector_layer *)

\* an optional argument: << >> for None, <<v>> for the value v
Given(o) == o # << >>
\* the truth value Python gives to an optional integer
Truthy(o) == Given(o) /\ o[1] # 0

DefaultLayerSide == 100

\* x or layer_data.get(key, 100)
OrLayer(o, layer_data, key) ==
    IF Truthy(o) THEN o[1] ELSE Get(layer_data, key, DefaultLayerSide)

\* np.zeros((height, width, 4), dtype=np.uint8), by its shape
Zeros(height, width) ==
    [error |-> None, h |-> height, w |-> width, transparent |-> TRUE]

BackendErrorPropagates(height, width) ==
    [error |-> "Exception", h |-> 0, w |-> 0, transparent |-> FALSE]

\* except Exception: print the warning and return np.zeros(...)
OnBackendError(height, width) == Zeros(height, width)

\* the state of the SVG backend: HAS_RESVG false, svg_to_bytes raising, or working
Backends == {"missing", "raises", "ok"}

\* render_vector_layer, by the shape of the buffer returned and whether it is
\* fully transparent; a rendered buffer has the layer's size (the BOX resize
\* brings a supersampled one back to it)
render_vector_layer(layer_data, width, height, supersample, backend) ==
    LET shapes == Get(layer_data, "shapes", << >>)
        layer_width == OrLayer(width, layer_data, "width")
        layer_height == OrLayer(height, layer_data, "height")
        scale == Max(1, supersample)
    IN  IF shapes = << >> THEN Zeros(layer_height, layer_width)
        ELSE IF backend = "missing" THEN Zeros(layer_height, layer_width)
        ELSE IF backend = "raises" THEN OnBackendError(layer_height, layer_width)
        ELSE [error |-> None, h |-> (layer_height * scale) \div scale,
              w |-> (layer_width * scale) \div scale, transparent |-> FALSE]

VectorMaxSide == 2
Supersamples == {0, 1, 2}
Overrides == {<< >>} \cup {<<v>> : v \in 0..VectorMaxSide}

\* a well-formed shape list
SomeShapes == << [type |-> "rect", x |-> 0, y |-> 0, width |-> 1, height |-> 1] >>

\* vector layer data: 'shapes', 'width' and 'height' may each be missing
VectorLayers ==
    { sh @@ wd @@ ht :
        sh \in {<< >>, [shapes |-> << >>], [shapes |-> SomeShapes]},
        wd \in {<< >>, [width |-> 3]},
        ht \in {<< >>, [height |-> 5]} }

InitVector ==
    /\ phase = "vector"
    /\ pc = "call"
    /\ arg \in [layer_data : VectorLayers, width : Overrides, height : Overrides,
                supersample : Supersamples, backend : Backends]
    /\ ret = Idle
    /\ IdleRender /\ IdleBlend /\ IdleConc /\ IdleLanczos /\ IdleEffect /\ IdleService

VectorCall ==
    /\ phase = "vector" /\ pc = "call"
    /\ ret' = render_vector_layer(arg.layer_data, arg.width, arg.height,
                                  arg.supersample, arg.backend)
    /\ pc' = "done"
    /\ UNCHANGED <<phase, arg, canvas, nLayers, covered, expected, opaqueDoc, background,
                   offPrev, blendVars, concVars, lanczosVars, effectVars, serviceVars>>

NextVector == VectorCall

-----------------------------------------------------------------------------
(* render_document and render_layer on documents that may lack fields or hold   *)
(* layers that cannot be rasterised; buffers are followed by shape and origin   *)

DefaultWidth == 800
DefaultHeight == 600
MaxDocLayers == 2

\* raster layers: 'imageData' missing, empty, a PNG, or bytes that are no image
RasterLayers ==
    { [type |-> "raster", visible |-> v] @@ d :
        v \in BOOLEAN,
        d \in {<< >>, [imageData |-> ""], [imageData |-> "png"], [imageData |-> "corrupt"]} }

\* text layers; raises: the text rasteriser fails on this layer
TextLayers == [type : {"text"}, visible : BOOLEAN, raises : BOOLEAN]

VectorDocLayers == [type : {"vector"}, visible : BOOLEAN, shapes : {SomeShapes}]

DocLayers == RasterLayers \cup TextLayers \cup VectorDocLayers

\* document data: 'width', 'height' and 'layers' may each be missing
Documents ==
    { wd @@ ht @@ ls :
        wd \in {<< >>, [width |-> 2]},
        ht \in {<< >>, [height |-> 2]},
        ls \in {<< >>} \cup
               { [layers |-> l] : l \in UNION { [1..n -> DocLayers] : n \in 0..MaxDocLayers } } }

\* render_layer: the error raised, or where the pixels returned come from
RenderLayerCall(layer_data, backend) ==
    LET layer_type == Get(layer_data, "type", "raster")
    IN  IF layer_type = "text"
        THEN IF layer_data.raises
             THEN [error |-> "Exception", pixels |-> None]
             ELSE [error |-> None, pixels |-> "text"]
        ELSE IF layer_type = "vector"
        THEN LET r == render_vector_layer(layer_data, << >>, << >>, 1, backend)
             IN  [error |-> r.error,
                  pixels |-> IF r.transparent THEN "blank" ELSE "shapes"]
        ELSE LET image_data == Get(layer_data, "imageData", "")
             IN  IF image_data # ""
                 THEN IF image_data = "corrupt"
                      THEN [error |-> "UnidentifiedImageError", pixels |-> None]
                      ELSE [error |-> None, pixels |-> "decoded"]
                 ELSE [error |-> None, pixels |-> "blank"]

InitDoc ==
    /\ phase = "document"
    /\ pc = "start"
    /\ arg \in [doc : Documents, backend : Backends]
    /\ ret = Idle
    /\ IdleRender /\ IdleBlend /\ IdleConc /\ IdleLanczos /\ IdleEffect /\ IdleService

DocUnchanged ==
    UNCHANGED <<phase, arg, canvas, nLayers, covered, expected, opaqueDoc, background,
                offPrev, blendVars, concVars, lanczosVars, effectVars, serviceVars>>

\* width, height, layers are read and the canvas is created
DocStart ==
    /\ phase = "document" /\ pc = "start"
    /\ ret' = [error |-> None,
               w |-> Get(arg.doc, "width", DefaultWidth),
               h |-> Get(arg.doc, "height", DefaultHeight),
               layers |-> Get(arg.doc, "layers", << >>),
               idx |-> 0, composited |-> << >>]
    /\ pc' = "loop"
    /\ DocUnchanged

\* for layer_data in layers: an invisible layer is skipped
DocSkipLayer ==
    /\ phase = "document" /\ pc = "loop"
    /\ ret.idx < Len(ret.layers)
    /\ ~ret.layers[ret.idx + 1].visible
    /\ ret' = [ret EXCEPT !.idx = @ + 1]
    /\ pc' = pc
    /\ DocUnchanged

\* render_layer returns and its pixels are blended onto the canvas
DocBlendLayer ==
    /\ phase = "document" /\ pc = "loop"
    /\ ret.idx < Len(ret.layers)
    /\ ret.layers[ret.idx + 1].visible
    /\ LET r == RenderLayerCall(ret.layers[ret.idx + 1], arg.backend)
       IN  /\ r.error = None
           /\ ret' = [ret EXCEPT !.idx = @ + 1,
                                 !.composited = Append(@, r.pixels)]
    /\ pc' = pc
    /\ DocUnchanged

\* render_layer raises: render_document has no handler, the error leaves it
DocLayerRaises ==
    /\ phase = "document" /\ pc = "loop"
    /\ ret.idx < Len(ret.layers)
    /\ ret.layers[ret.idx + 1].visible
    /\ LET r == RenderLayerCall(ret.layers[ret.idx + 1], arg.backend)
       IN  /\ r.error # None
           /\ ret' = [ret EXCEPT !.error = r.error]
    /\ pc' = "raised"
    /\ DocUnchanged

\* return canvas
DocReturn ==
    /\ phase = "document" /\ pc = "loop"
    /\ ret.idx = Len(ret.layers)
    /\ ret' = ret
    /\ pc' = "done"
    /\ DocUnchanged

NextDoc == DocStart \/ DocSkipLayer \/ DocBlendLayer \/ DocLayerRaises \/ DocReturn

-----------------------------------------------------------------------------
(* apply_filter: slopstag/api/filters.py *)

FilterMaxSide == 2

\* the ids of the request path: the registered filters and one that is not
filter_registry == {"blur", "noise"}
FilterIds == {"blur", "nope"}

\* an optional JSON number: << >> when the key is absent
Dimensions == {<< >>} \cup {<<n>> : n \in 0..FilterMaxSide}

\* the bytes after the length prefix, by what decoding makes of them:
\* not UTF-8, UTF-8 but not JSON, a JSON array, or a JSON object
MetadataTexts == {"not_utf8", "not_json", "array", "object"}
Metadatas == [text : MetadataTexts, width : Dimensions, height : Dimensions]

\* the number of bytes after the metadata
RgbaLengths == {4 * k : k \in 0..(FilterMaxSide * FilterMaxSide)} \cup {5}

\* has_prefix: len(body) >= 4; has_metadata: len(body) >= 4 + metadata_length
Bodies == [has_prefix : BOOLEAN, has_metadata : BOOLEAN, metadata : Metadatas,
           rgba : RgbaLengths]

\* what filter_instance.apply does with the image
FilterBehaviours == {"same_shape", "other_shape", "raises"}

\* raise HTTPException(status_code, detail)
HTTPException(status_code, detail, ran) ==
    [status |-> status_code, content |-> "error", detail |-> detail, ran |-> ran]

\* an exception that no handler of apply_filter catches: the server answers 500
Unhandled(exception, ran) ==
    [status |-> 500, content |-> "error", detail |-> exception, ran |-> ran]

\* not width: None and 0 are falsy
Falsy(d) == d = << >> \/ d[1] = 0

\* from the check of the sizes on: the image is built and the filter is run
ApplyToImage(width, height, rgba, behaviour) ==
    IF rgba # width * height * 4
    THEN HTTPException(400, "Invalid image data size", FALSE)
    ELSE IF behaviour = "raises"
    THEN HTTPException(500, "Filter error", TRUE)
    ELSE IF behaviour = "other_shape"
    THEN HTTPException(500, "Filter produced invalid output dimensions", TRUE)
    ELSE [status |-> 200, content |-> "pixels", detail |-> None, ran |-> TRUE]

\* the metadata decoded and read
ReadMetadata(metadata, rgba, behaviour) ==
    IF metadata.text = "not_utf8" THEN Unhandled("UnicodeDecodeError", FALSE)
    ELSE IF metadata.text = "not_json"
    THEN HTTPException(400, "Invalid JSON metadata", FALSE)
    ELSE IF metadata.text = "array" THEN Unhandled("AttributeError", FALSE)
    ELSE IF Falsy(metadata.width) \/ Falsy(metadata.height)
    THEN HTTPException(400, "Missing width or height in metadata", FALSE)
    ELSE ApplyToImage(metadata.width[1], metadata.height[1], rgba, behaviour)

apply_filter(filter_id, body, behaviour) ==
    IF filter_id \notin filter_registry
    THEN HTTPException(404, "Filter not found", FALSE)
    ELSE IF ~body.has_prefix THEN HTTPException(400, "Request body too short", FALSE)
    ELSE IF ~body.has_metadata
    THEN HTTPException(400, "Invalid metadata length", FALSE)
    ELSE ReadMetadata(body.metadata, body.rgba, behaviour)

InitFilter ==
    /\ phase = "filter"
    /\ pc = "call"
    /\ arg \in [filter_id : FilterIds, body : Bodies, behaviour : FilterBehaviours]
    /\ ret = Idle
    /\ IdleRender /\ IdleBlend /\ IdleConc /\ IdleLanczos /\ IdleEffect /\ IdleService

FilterCall ==
    /\ phase = "filter" /\ pc = "call"
    /\ ret' = apply_filter(arg.filter_id, arg.body, arg.behaviour)
    /\ pc' = "done"
    /\ UNCHANGED <<phase, arg, canvas, nLayers, covered, expected, opaqueDoc, background,
                   offPrev, blendVars, concVars, lanczosVars, effectVars, serviceVars>>

NextFilter == FilterCall

-----------------------------------------------------------------------------
(* SessionManager: slopstag/sessions/manager.py, and its callers *)

\* _session_timeout = timedelta(minutes=5)
SessionTimeout == 5
\* the clock is read every TickMinutes minutes, up to MaxTime
TickMinutes == 5
MaxTime == 10

SessionIds == {"s1", "s2"}
\* the NiceGUI client and the CanvasEditor of a page
Connections == {[client |-> "c1", editor |-> "e1"], [client |-> "c2", editor |-> "e2"]}
Tools == {"brush", "eraser"}

\* SessionState(): the part of the state the model follows
SessionState == [active_tool |-> "brush"]

\* the state_update dictionaries sent by the page
StateUpdates == {<< >>} \cup {[k \in {"active_tool"} |-> t] : t \in Tools}

EditorSession(id, client, editor, t) ==
    [id |-> id, created_at |-> t, last_activity |-> t, state |-> SessionState,
     client |-> client, editor |-> editor]

update_activity(session, t) == [session EXCEPT !.last_activity = t]

\* the registry with the entry of session_id set to session
Store(ss, session_id, session) ==
    [s \in DOMAIN ss \cup {session_id} |-> IF s = session_id THEN session ELSE ss[s]]

\* del self._sessions[sid] for every sid of the set
Delete(ss, removed) == [s \in DOMAIN ss \ removed |-> ss[s]]

\* a register that made a new session for an id that has one
register_anew(ss, session_id, client, editor, t) ==
    Store(ss, session_id, EditorSession(session_id, client, editor, t))

register(ss, session_id, client, editor, t) ==
    IF session_id \in DOMAIN ss
    THEN Store(ss, session_id,
               update_activity([ss[session_id] EXCEPT !.client = client,
                                                      !.editor = editor], t))
    ELSE Store(ss, session_id, EditorSession(session_id, client, editor, t))

unregister(ss, session_id) == Delete(ss, {session_id})

\* CanvasEditor._on_disconnect
on_disconnect(ss, session_id) ==
    IF session_id \in DOMAIN ss
    THEN Store(ss, session_id, [ss[session_id] EXCEPT !.client = None, !.editor = None])
    ELSE ss

update_state(ss, session_id, state_update, t) ==
    IF session_id \notin DOMAIN ss THEN ss
    ELSE LET session == update_activity(ss[session_id], t)
             state == [active_tool |-> Get(state_update, "active_tool",
                                           session.state.active_tool)]
         IN  Store(ss, session_id, [session EXCEPT !.state = state])

\* the test of cleanup_inactive without its test of the client
InactiveAnyClient(session, t) == t - session.last_activity > SessionTimeout

\* now - session.last_activity > self._session_timeout and session.client is None
Inactive(session, t) ==
    t - session.last_activity > SessionTimeout /\ session.client = None

cleanup_inactive(ss, t) == Delete(ss, {sid \in DOMAIN ss : Inactive(ss[sid], t)})

\* the methods that call session.editor.run_method
EditorOperations ==
    {"execute_tool", "execute_command", "get_image", "export_document",
     "import_document", "get_config", "set_config", "get_layer_effects",
     "add_layer_effect", "update_layer_effect", "remove_layer_effect"}

\* what run_method does: it returns, or raises with a message
EditorOutcomes == {"returns", "timeout"}

\* the error dictionary of a manager method, and whether run_method was called
Failure(error, invoked) == [success |-> FALSE, error |-> error, invoked |-> invoked]

\* the prefix every editor operation shares, and the call of the editor
EditorOperation(ss, session_id, outcome, t) ==
    IF session_id \notin DOMAIN ss
    THEN [sessions |-> ss, result |-> Failure("Session not found", FALSE)]
    ELSE IF ss[session_id].editor = None
    THEN [sessions |-> ss, result |-> Failure("Editor not connected", FALSE)]
    ELSE [sessions |-> Store(ss, session_id, update_activity(ss[session_id], t)),
          result |-> IF outcome = "returns"
                     THEN [success |-> TRUE, error |-> None, invoked |-> TRUE]
                     ELSE Failure(outcome, TRUE)]

\* the test of the routes, had it looked for another text
ContainsNoSession(error) == error \in {"no session"}

\* "not found" in error.lower()
ContainsNotFound(error) == error \in {"Session not found"}

\* api/sessions.py: the status of the response for the result of the manager
Respond(result) ==
    [error |-> result.error, invoked |-> result.invoked,
     status |-> IF result.success THEN 200
                ELSE IF ContainsNotFound(result.error) THEN 404 ELSE 500]

\* api/sessions.py get_session
get_session(ss, session_id) ==
    IF session_id \notin DOMAIN ss
    THEN Respond(Failure("Session not found", FALSE))
    ELSE Respond([success |-> TRUE, error |-> None, invoked |-> FALSE])

NoResponse == [error |-> None, invoked |-> FALSE, status |-> 0]

InitSession ==
    /\ phase = "session"
    /\ pc = "serving"
    /\ sessions = << >>
    /\ now = 0
    /\ before = [sessions |-> << >>, now |-> 0]
    /\ arg = [op |-> "init", session_id |-> None]
    /\ ret = NoResponse
    /\ IdleRender /\ IdleBlend /\ IdleConc /\ IdleLanczos /\ IdleEffect /\ IdleCache

\* what no call on the manager changes
SessionUnchanged ==
    UNCHANGED <<phase, pc, canvas, nLayers, covered, expected, opaqueDoc, background,
                offPrev, blendVars, concVars, lanczosVars, effectVars, cacheVars>>

\* a call on the manager: its name and id, the registry and the clock it found
Called(op, session_id) ==
    /\ phase = "session"
    /\ arg' = [op |-> op, session_id |-> session_id]
    /\ before' = [sessions |-> sessions, now |-> now]
    /\ now' = now
    /\ SessionUnchanged

\* CanvasEditor.__init__
Register ==
    \E session_id \in SessionIds, c \in Connections :
        /\ Called("register", session_id)
        /\ sessions' = register(sessions, session_id, c.client, c.editor, now)
        /\ ret' = NoResponse

Unregister ==
    \E session_id \in SessionIds :
        /\ Called("unregister", session_id)
        /\ sessions' = unregister(sessions, session_id)
        /\ ret' = NoResponse

Disconnect ==
    \E session_id \in SessionIds :
        /\ Called("on_disconnect", session_id)
        /\ sessions' = on_disconnect(sessions, session_id)
        /\ ret' = NoResponse

\* CanvasEditor._handle_state_update
UpdateState ==
    \E session_id \in SessionIds, state_update \in StateUpdates :
        /\ Called("update_state", session_id)
        /\ sessions' = update_state(sessions, session_id, state_update, now)
        /\ ret' = NoResponse

CleanupInactive ==
    /\ Called("cleanup_inactive", None)
    /\ sessions' = cleanup_inactive(sessions, now)
    /\ ret' = NoResponse

GetSession ==
    \E session_id \in SessionIds :
        /\ Called("get", session_id)
        /\ sessions' = sessions
        /\ ret' = get_session(sessions, session_id)

\* a route of api/sessions.py and the manager method it awaits
EditorCall ==
    \E op \in EditorOperations, session_id \in SessionIds, outcome \in EditorOutcomes :
        LET r == EditorOperation(sessions, session_id, outcome, now)
        IN  /\ Called(op, session_id)
            /\ sessions' = r.sessions
            /\ ret' = Respond(r.result)

\* time passes
Tick ==
    /\ phase = "session"
    /\ now < MaxTime
    /\ now' = now + TickMinutes
    /\ UNCHANGED <<sessions, before, arg, ret>>
    /\ SessionUnchanged

NextSession ==
    \/ Register \/ Unregister \/ Disconnect \/ UpdateState \/ CleanupInactive
    \/ GetSession \/ EditorCall \/ Tick

-----------------------------------------------------------------------------
(* render_document on documents that differ in their blendMode values *)

\* a name of BLEND_MODES rendered as source-over, another of its names, and a
\* string that is none of them
BlendModeStrings == {"normal", "multiply", "no-such-mode"}

ModeLayers ==
    [width : {MaxSide}, height : {MaxSide}, imageData : {1, 3}, offsetX : {0, 1},
     offsetY : {0}, opacity : 1..OpDen, visible : BOOLEAN, blendMode : BlendModeStrings]

\* the layers with their blendMode values replaced by those of modes
WithModes(layers, modes) ==
    [i \in 1..Len(layers) |-> [layers[i] EXCEPT !.blendMode = modes[i]]]

AllNormal(layers) == [i \in 1..Len(layers) |-> "normal"]

InitMode ==
    /\ phase = "mode"
    /\ pc = "call"
    /\ \E n \in 0..MaxLayers :
          arg \in [layers : [1..n -> ModeLayers], other : [1..n -> BlendModeStrings],
                   background_color : {DefaultBackground}]
    /\ ret = Idle
    /\ IdleRender /\ IdleBlend /\ IdleConc /\ IdleLanczos /\ IdleEffect /\ IdleService

\* the document rendered as given, with the other blendMode values, and with
\* every blendMode normal
ModeCall ==
    /\ phase = "mode" /\ pc = "call"
    /\ ret' = [error |-> None,
               out |-> render_document(arg.layers, arg.background_color),
               other |-> render_document(WithModes(arg.layers, arg.other),
                                         arg.background_color),
               normal |-> render_document(WithModes(arg.layers, AllNormal(arg.layers)),
                                          arg.background_color)]
    /\ pc' = "done"
    /\ UNCHANGED <<phase, arg, canvas, nLayers, covered, expected, opaqueDoc, background,
                   offPrev, blendVars, concVars, lanczosVars, effectVars, serviceVars>>

NextMode == ModeCall

-----------------------------------------------------------------------------
(* lanczos_resample_fast: slopstag/rendering/lanczos.py *)

FastMaxW == 2

\* np.clip(num / den, 0, 255).astype(np.uint8), den > 0: the float is truncated.
\* A quotient that is an exact integer q is computed in floating point as q or as
\* the float just below it, which truncates to q - 1.
TruncClamped(num, den) ==
    IF num <= 0 THEN {0}
    ELSE IF num > 255 * den THEN {255}
    ELSE IF num % den = 0 THEN {(num \div den) - 1, num \div den}
    ELSE {num \div den}

\* the values result[dst_y, dst_x] can take for the accumulators of the pixel
FastPixels(acc) ==
    IF acc.weight_sum > 0 /\ acc.alpha > 0
    THEN TruncClamped(acc.r, acc.alpha) \X TruncClamped(acc.g, acc.alpha)
            \X TruncClamped(acc.b, acc.alpha)
            \X TruncClamped(acc.alpha * AlphaStep, acc.weight_sum)
    ELSE {<<0, 0, 0, 0>>}

\* f with the value v added at index k
Extended(f, k, v) == [i \in 0..k |-> IF i = k THEN v ELSE f[i]]

\* the rows of n pixels result[dst_y] can be
RECURSIVE FastRows(_, _, _, _, _)
FastRows(src, dst_width, dst_height, dy, n) ==
    IF n = 0 THEN {<< >>}
    ELSE { Extended(row, n - 1, p) :
             row \in FastRows(src, dst_width, dst_height, dy, n - 1),
             p \in FastPixels(Accumulate(src, dst_width, dst_height, n - 1, dy)) }

\* the arrays of n rows result can be
RECURSIVE FastArrays(_, _, _, _)
FastArrays(src, dst_width, dst_height, n) ==
    IF n = 0 THEN {<< >>}
    ELSE { Extended(px, n - 1, row) :
             px \in FastArrays(src, dst_width, dst_height, n - 1),
             row \in FastRows(src, dst_width, dst_height, n - 1, dst_width) }

\* the buffers lanczos_resample_fast can return: the loops accumulate the same
\* terms per destination pixel, in the same order, as lanczos_resample
lanczos_resample_fast(src, dst_width, dst_height) ==
    { [w |-> dst_width, h |-> dst_height, px |-> px] :
        px \in FastArrays(src, dst_width, dst_height, dst_height) }

FastImages ==
    UNION {{[w |-> w, h |-> 1, px |-> f] : f \in [0..0 -> [0..(w-1) -> LPalette]]} :
              w \in 1..FastMaxW}

InitFast ==
    /\ phase = "fast"
    /\ pc = "call"
    /\ arg \in [src : FastImages, dst_width : 1..FastMaxW, dst_height : {1}]
    /\ ret = Idle
    /\ IdleRender /\ IdleBlend /\ IdleConc /\ IdleLanczos /\ IdleEffect /\ IdleService

\* both functions called on the same arguments
FastCall ==
    /\ phase = "fast" /\ pc = "call"
    /\ \E fast \in lanczos_resample_fast(arg.src, arg.dst_width, arg.dst_height) :
          ret' = [slow |-> lanczos_resample(arg.src, arg.dst_width, arg.dst_height),
                  fast |-> fast]
    /\ pc' = "done"
    /\ UNCHANGED <<phase, arg, canvas, nLayers, covered, expected, opaqueDoc, background,
                   offPrev, blendVars, concVars, lanczosVars, effectVars, serviceVars>>

NextFast == FastCall

-----------------------------------------------------------------------------
(* _build_path_d: slopstag/rendering/vector.py *)

PathMaxPoints == 3

\* a handle is an offset from its point; << >> when the point has none
Handles == {<< >>, <<[x |-> 1, y |-> 2]>>}

PathPoints == [x : {0, 4}, y : {0}, handleIn : Handles, handleOut : Handles]

PathShapes ==
    UNION { [points : [1..n -> PathPoints], closed : BOOLEAN] : n \in 0..PathMaxPoints }

\* _get_handle_abs: << >> for None, else the absolute position of the handle
get_handle_abs(point, handle_name) ==
    LET handle == point[handle_name]
    IN  IF handle = << >> THEN << >>
        ELSE <<[x |-> point.x + handle[1].x, y |-> point.y + handle[1].y]>>

\* the part appended for the segment from from_pt to to_pt, by the if / elif chain
\* of the loop; the command letter, then the numbers formatted after it
SegmentParts(from_pt, to_pt, line_when_no_handle) ==
    LET h_out == get_handle_abs(from_pt, "handleOut")
        h_in == get_handle_abs(to_pt, "handleIn")
    IN  IF h_out # << >> /\ h_in # << >>
        THEN << <<"C", h_out[1].x, h_out[1].y, h_in[1].x, h_in[1].y, to_pt.x, to_pt.y>> >>
        ELSE IF h_out # << >>
        THEN << <<"Q", h_out[1].x, h_out[1].y, to_pt.x, to_pt.y>> >>
        ELSE IF h_in # << >>
        THEN << <<"Q", h_in[1].x, h_in[1].y, to_pt.x, to_pt.y>> >>
        ELSE IF line_when_no_handle THEN << <<"L", to_pt.x, to_pt.y>> >>
        ELSE << >>

\* parts after the iterations 1 .. i of the loop over the points
RECURSIVE PartsUpTo(_, _)
PartsUpTo(points, i) ==
    IF i = 0 THEN << <<"M", points[1].x, points[1].y>> >>
    ELSE PartsUpTo(points, i - 1) \o SegmentParts(points[i], points[i + 1], TRUE)

\* the parts of the 'd' attribute, before " ".join
build_path_d(shape) ==
    LET points == shape.points
        n == Len(points)
    IN  IF n < 2 THEN << >>
        ELSE PartsUpTo(points, n - 1)
                \o (IF shape.closed /\ n > 2
                    THEN SegmentParts(points[n], points[1], FALSE) \o << <<"Z">> >>
                    ELSE << >>)

\* _shape_to_svg for a path without 'd': the element is omitted when d is empty
PathElement(shape) ==
    LET d == build_path_d(shape)
    IN  [d |-> d, omitted |-> d = << >>]

InitPath ==
    /\ phase = "path"
    /\ pc = "call"
    /\ arg \in PathShapes
    /\ ret = Idle
    /\ IdleRender /\ IdleBlend /\ IdleConc /\ IdleLanczos /\ IdleEffect /\ IdleService

PathCall ==
    /\ phase = "path" /\ pc = "call"
    /\ ret' = PathElement(arg)
    /\ pc' = "done"
    /\ UNCHANGED <<phase, arg, canvas, nLayers, covered, expected, opaqueDoc, background,
                   offPrev, blendVars, concVars, lanczosVars, effectVars, serviceVars>>

NextPath == PathCall

-----------------------------------------------------------------------------
(* measure_text_layer, render_text_layer: slopstag/rendering/text.py *)

MaxRuns == 2

\* padding = 4
TextPadding == 4

\* line_height is LineHeights / LineHeightDen: 1.2 and 1.0
LineHeightDen == 10
LineHeights == {12, 10}

\* a text is the sequence of its characters
Texts == {<< >>, <<"a">>, <<"\n">>, <<"a", "\n">>, <<"a", "\n", "b">>, <<"\n", "\n">>}

\* fontSize of a run: << >> when the run has no such key
FontSizes == {<< >>, <<12>>, <<36>>}
DefaultFontSizes == {24}

TextRuns == [text : Texts, fontSize : FontSizes]

\* text.split("\n"), the parts found so far being parts
RECURSIVE SplitFrom(_, _, _)
SplitFrom(text, i, parts) ==
    IF i > Len(text) THEN parts
    ELSE IF text[i] = "\n" THEN SplitFrom(text, i + 1, Append(parts, << >>))
    ELSE SplitFrom(text, i + 1,
                   [parts EXCEPT ![Len(parts)] = Append(parts[Len(parts)], text[i])])

Split(text) == SplitFrom(text, 1, << << >> >>)

\* for i, part in enumerate(parts): a new line before every part but the first,
\* and the part, if not empty, appended to the current (the last) line
RECURSIVE AddParts(_, _, _, _)
AddParts(lines, run, parts, i) ==
    IF i > Len(parts) THEN lines
    ELSE LET opened == IF i > 1 THEN Append(lines, << >>) ELSE lines
             item == [run |-> run, text |-> parts[i]]
         IN  AddParts(IF parts[i] # << >>
                      THEN [opened EXCEPT ![Len(opened)] = Append(opened[Len(opened)], item)]
                      ELSE opened,
                      run, parts, i + 1)

\* for run in runs: the lines after the first n runs
RECURSIVE ParseLines(_, _)
ParseLines(runs, n) ==
    IF n = 0 THEN << << >> >>
    ELSE AddParts(ParseLines(runs, n - 1), runs[n], Split(runs[n].text), 1)

\* run.get("fontSize", default_font_size)
FontSizeOf(run, default_font_size) ==
    IF run.fontSize = << >> THEN default_font_size ELSE run.fontSize[1]

\* the largest fontSize among the first n items of the line, from start
RECURSIVE LargestFontSize(_, _, _, _)
LargestFontSize(line_runs, n, start, default_font_size) ==
    IF n = 0 THEN start
    ELSE Max(LargestFontSize(line_runs, n - 1, start, default_font_size),
             FontSizeOf(line_runs[n].run, default_font_size))

\* line_max_font_size = default_font_size, then max(line_max_font_size, font_size)
\* for every item; default_font_size again when the line has no item
LineMaxFontSize(line_runs, default_font_size) ==
    IF line_runs = << >> THEN default_font_size
    ELSE LargestFontSize(line_runs, Len(line_runs), default_font_size, default_font_size)

RECURSIVE SeqSum(_, _)
SeqSum(s, n) == IF n = 0 THEN 0 ELSE SeqSum(s, n - 1) + s[n]

\* lines, line_heights (over LineHeightDen) and the height returned
measure_text_layer(runs, default_font_size, line_height, padding) ==
    LET lines == ParseLines(runs, Len(runs))
        line_heights == [k \in 1..Len(lines) |->
                            LineMaxFontSize(lines[k], default_font_size) * line_height]
    IN  [lines |-> lines, line_heights |-> line_heights,
         height |-> Ceil(SeqSum(line_heights, Len(line_heights)), LineHeightDen)
                      + padding * 2]

\* render_text_layer on a layer with runs: the lines it draws and the line_h it
\* advances y by after each
render_text_layer(runs, default_font_size, line_height) ==
    LET m == measure_text_layer(runs, default_font_size, line_height, TextPadding)
        lines == ParseLines(runs, Len(runs))
    IN  [lines |-> lines,
         line_h |-> [k \in 1..Len(lines) |->
                        IF k <= Len(m.line_heights) THEN m.line_heights[k]
                        ELSE default_font_size * line_height],
         height |-> m.height]

InitText ==
    /\ phase = "text"
    /\ pc = "call"
    /\ \E n \in 1..MaxRuns :
          arg \in [runs : [1..n -> TextRuns], fontSize : DefaultFontSizes,
                   lineHeight : LineHeights]
    /\ ret = Idle
    /\ IdleRender /\ IdleBlend /\ IdleConc /\ IdleLanczos /\ IdleEffect /\ IdleService

TextCall ==
    /\ phase = "text" /\ pc = "call"
    /\ ret' = [measured |-> measure_text_layer(arg.runs, arg.fontSize, arg.lineHeight,
                                               TextPadding),
               rendered |-> render_text_layer(arg.runs, arg.fontSize, arg.lineHeight)]
    /\ pc' = "done"
    /\ UNCHANGED <<phase, arg, canvas, nLayers, covered, expected, opaqueDoc, background,
                   offPrev, blendVars, concVars, lanczosVars, effectVars, serviceVars>>

NextText == TextCall

-----------------------------------------------------------------------------
(* get_filter_preview, get_all_filter_previews: slopstag/api/filters.py *)

MaxRequests == 3
Requests == 1..MaxRequests

\* the order in which "for filter_id in filter_registry" visits the registry
RegistryOrder == <<"blur", "noise">>

\* the data URL a computation ends with: that of the unfiltered sample when apply
\* raises, returns None or returns another shape, else that of the filtered
\* image, which two runs of a filter need not produce alike
DataUrls == {"sample", "filtered-a", "filtered-b"}

\* a request: get_filter_preview(filter_id), or get_all_filter_previews ("all")
RequestKinds == filter_registry \cup {"nope", "all"}

\* the coroutine of a request when it is created
NewTask(kind) ==
    [kind |-> kind, pc |-> "check",
     todo |-> IF kind = "all" THEN RegistryOrder ELSE <<kind>>,
     data_url |-> None, status |-> 0, previews |-> << >>]

\* a handler that gave the loop to other requests between any two statements
YieldsAnywhere(position) == TRUE

\* neither handler awaits anything: a coroutine leaves the event loop to the
\* other requests only when it returns
Yields(position) == position = "done"

\* the previews returned so far, with that of filter_id
WithPreview(previews, filter_id, data_url) ==
    [f \in DOMAIN previews \cup {filter_id} |->
        IF f = filter_id THEN data_url ELSE previews[f]]

\* the task after the filter at the head of todo is dealt with
Served(task, data_url) ==
    LET rest == Tail(task.todo)
    IN  [task EXCEPT !.previews = WithPreview(task.previews, Head(task.todo), data_url),
                     !.todo = rest, !.data_url = None,
                     !.pc = IF rest = << >> THEN "done" ELSE "check",
                     !.status = IF rest = << >> THEN 200 ELSE 0]

InitCache ==
    /\ phase = "cache"
    /\ pc = "serving"
    /\ preview_cache = << >>
    /\ \E kinds \in [Requests -> RequestKinds] :
          requests = [running |-> 0, task |-> [r \in Requests |-> NewTask(kinds[r])]]
    /\ computed = [f \in filter_registry |-> 0]
    /\ IdleRender /\ IdleBlend /\ IdleConc /\ IdleLanczos /\ IdleEffect /\ IdleSession
    /\ IdleCall

CacheUnchanged ==
    UNCHANGED <<phase, pc, canvas, nLayers, covered, expected, opaqueDoc, background,
                offPrev, blendVars, concVars, lanczosVars, effectVars, sessionVars,
                callVars>>

\* the event loop runs request r: no other coroutine is between two statements
Runs(r) == phase = "cache" /\ requests.running \in {0, r}

\* the requests after r has made a step that left its task as task
Stepped(r, task) ==
    [running |-> IF Yields(task.pc) THEN 0 ELSE r,
     task |-> [requests.task EXCEPT ![r] = task]]

\* if filter_id not in filter_registry: 404; if filter_id in _preview_cache: return
PreviewCheck ==
    \E r \in Requests :
        LET task == requests.task[r]
            filter_id == Head(task.todo)
        IN  /\ Runs(r) /\ task.pc = "check"
            /\ requests' = Stepped(r,
                  IF filter_id \notin filter_registry
                  THEN [task EXCEPT !.pc = "done", !.status = 404]
                  ELSE IF filter_id \in DOMAIN preview_cache
                  THEN Served(task, preview_cache[filter_id])
                  ELSE [task EXCEPT !.pc = "compute"])
            /\ UNCHANGED <<preview_cache, computed>>
            /\ CacheUnchanged

\* the filter applied to the sample and the result encoded
PreviewCompute ==
    \E r \in Requests, data_url \in DataUrls :
        LET task == requests.task[r]
        IN  /\ Runs(r) /\ task.pc = "compute"
            /\ requests' = Stepped(r, [task EXCEPT !.pc = "store", !.data_url = data_url])
            /\ computed' = [computed EXCEPT ![Head(task.todo)] = @ + 1]
            /\ UNCHANGED preview_cache
            /\ CacheUnchanged

\* _preview_cache[filter_id] = data_url, and the data URL returned
PreviewStore ==
    \E r \in Requests :
        LET task == requests.task[r]
        IN  /\ Runs(r) /\ task.pc = "store"
            /\ preview_cache' = WithPreview(preview_cache, Head(task.todo), task.data_url)
            /\ requests' = Stepped(r, Served(task, task.data_url))
            /\ UNCHANGED computed
            /\ CacheUnchanged

NextCache == PreviewCheck \/ PreviewCompute \/ PreviewStore

-----------------------------------------------------------------------------
(* Claims on the compositor *)


\* C1: every canvas pixel outside the translated rectangle of every visible layer
\* equals the background colour; a layer whose translated rectangle does not
\* intersect the canvas leaves the whole canvas unchanged; a document with no
\* layers renders entirely as background.
C1_OutsideIsBackground ==
    phase = "render" =>
        /\ \A q \in Positions \ covered : At(canvas, q) = background
        /\ canvas = offPrev
        /\ (pc = "done" /\ nLayers = 0) => canvas = Filled(CanvasW, CanvasH, background)

C1_Witness ==
    /\ phase = "render" /\ pc = "done" /\ nLayers = MaxLayers
    /\ background = DefaultBackground
    /\ \E q \in covered : At(canvas, q) # background
    /\ \E q \in Positions \ covered : At(canvas, q) = background

\* the source-over result, stated by bracketing instead of by division:
\* out is the stored pixel for source pixel s over destination pixel d at opacity op/OpDen
SourceOver(out, d, s, op) ==
    LET srcA == s[4] * op                     \* over AlphaDen
        outA == 255 * srcA + d[4] * (AlphaDen - srcA)    \* over 255 * AlphaDen
        mix(c) == 255 * s[c] * srcA + d[c] * d[4] * (AlphaDen - srcA)
    IN  /\ out[4] \in 0..255
        /\ out[4] * AlphaDen <= outA /\ outA < (out[4] + 1) * AlphaDen
        /\ \A c \in 1..3 :
              /\ out[c] \in 0..255
              /\ outA > 0 => /\ out[c] * outA <= mix(c)
                             /\ (mix(c) < (out[c] + 1) * outA \/ out[c] = 255)

\* C2: on the overlap of canvas and layer, blend_layers writes the source-over
\* result for every opacity; the stored alpha stays within 0..255, and blending
\* onto a fully opaque canvas leaves every pixel fully opaque.
C2_SourceOver ==
    (phase = "blend" /\ pc = "done") =>
        /\ \A q \in LayerRect(bLayer) :
              SourceOver(At(bOut, q), At(bDst, q),
                         At(render_layer(bLayer).pixels,
                            <<q[1] - bLayer.offsetX, q[2] - bLayer.offsetY>>),
                         bLayer.opacity)
        /\ \A q \in Positions : At(bOut, q)[4] \in 0..255
        /\ (\A q \in Positions : At(bDst, q)[4] = 255)
              => \A q \in Positions : At(bOut, q)[4] = 255

C2_Witness ==
    /\ phase = "blend" /\ pc = "done"
    /\ bLayer.opacity = 1
    /\ \A q \in Positions : At(bDst, q)[4] = 255
    /\ \E q \in LayerRect(bLayer) :
          /\ At(render_layer(bLayer).pixels,
                <<q[1] - bLayer.offsetX, q[2] - bLayer.offsetY>>)[4] = 128
          /\ At(bOut, q) # At(bDst, q)
          /\ At(bOut, q)[4] = 255

\* C3: in a document whose layers are all fully opaque with opacity 1 and
\* blendMode normal, every output pixel equals the pixel of the last (highest
\* index) visible layer covering it, and the background where no visible layer
\* covers it; invisible layers never influence the output.
C3_TopLayerWins ==
    (phase = "render" /\ opaqueDoc) =>
        \A q \in Positions :
            /\ At(canvas, q) = expected[q[2]][q[1]]
            /\ q \notin covered => At(canvas, q) = background

C3_Witness ==
    /\ phase = "render" /\ pc = "done" /\ opaqueDoc /\ nLayers = MaxLayers
    /\ \E q \in covered : At(canvas, q) # background
    /\ \E q \in Positions \ covered : TRUE

\* C4: a render_document call depends only on its own argument: whatever other
\* call runs before it or interleaved with it, it returns the buffer that the
\* call alone returns for that document, so two calls with equal documents
\* return identical buffers.
C4_RenderDeterministic ==
    phase = "conc" =>
        /\ \A p \in Calls :
              cpc[p] = "done" => cres[p] = render_document(cdoc[p], DefaultBackground)
        /\ \A p, q \in Calls :
              (cpc[p] = "done" /\ cpc[q] = "done" /\ cdoc[p] = cdoc[q]) => cres[p] = cres[q]

C4_Witness ==
    /\ phase = "conc" /\ cmix
    /\ \A p \in Calls : cpc[p] = "done"
    /\ cdoc[1] = cdoc[2] /\ Len(cdoc[1]) = MaxLayers
    /\ cres[1] # Filled(CanvasW, CanvasH, DefaultBackground)

-----------------------------------------------------------------------------
(* Claims on the resampler *)

LDone == phase = "lanczos" /\ pc = "done"
SrcPositions == (0..(lSrc.w-1)) \X (0..(lSrc.h-1))
DstPositions == (0..(lW-1)) \X (0..(lH-1))
Colour(p) == <<p[1], p[2], p[3]>>

\* every source pixel with alpha > 0 has the colour c
OneColour(c) == \A q \in SrcPositions : At(lSrc, q)[4] > 0 => Colour(At(lSrc, q)) = c

\* C5 as stated: when every source pixel with alpha > 0 has the same colour, every
\* destination pixel with non-zero accumulated alpha has exactly that colour.
C5_AsStated ==
    LDone => \A p \in LPalette :
        OneColour(Colour(p)) =>
            \A q \in DstPositions :
                lOut.alpha[q[2]][q[1]] # 0 => Colour(At(lOut.img, q)) = Colour(p)

\* C5 (amended): when every source pixel with alpha > 0 has the same colour, every
\* destination pixel written with non-zero alpha has exactly that colour, for
\* every destination size.
C5_NoBleed ==
    LDone => \A p \in LPalette :
        OneColour(Colour(p)) =>
            \A q \in DstPositions :
                At(lOut.img, q)[4] # 0 => Colour(At(lOut.img, q)) = Colour(p)

C5_Witness ==
    /\ LDone
    /\ OneColour(<<200, 100, 50>>)
    /\ \E q \in SrcPositions : At(lSrc, q) = <<0, 60, 255, 0>>
    /\ \E q \in SrcPositions : At(lSrc, q)[4] = 85
    /\ \E q \in SrcPositions : At(lSrc, q)[4] = 255
    /\ lW # lSrc.w
    /\ \E q \in DstPositions : At(lOut.img, q)[4] \notin {0, 85, 255}

\* C6: when all source pixels have the same alpha, every destination pixel has
\* exactly that alpha, for every destination size, clipped windows included.
C6_UniformAlpha ==
    LDone => \A p \in LPalette :
        (\A q \in SrcPositions : At(lSrc, q)[4] = p[4])
            => \A q \in DstPositions : At(lOut.img, q)[4] = p[4]

C6_Witness ==
    /\ LDone
    /\ \A q \in SrcPositions : At(lSrc, q)[4] = 85
    /\ lSrc.w = LMaxW /\ lSrc.h = LMaxH /\ lW < lSrc.w /\ lH = lSrc.h
    /\ \A q \in DstPositions : At(lOut.img, q)[4] = 85

Identity == LDone /\ lW = lSrc.w /\ lH = lSrc.h

\* C7: an identity resample (destination size = source size) differs from its
\* input by at most 2%; stated here for fully opaque inputs only, whose colours
\* all count.
C7_IdentityWithin2Percent ==
    (Identity /\ \A q \in SrcPositions : At(lSrc, q)[4] = 255)
        => images_match(lSrc, lOut.img, 2)

-----------------------------------------------------------------------------
(* Claims on the layer effects *)

EDone == phase = "effects" /\ pc = "done"

\* C8: DropShadowEffect.get_expansion returns expand = ceil(blur*3) + |spread| and
\* left = max(0, expand - offset_x), top = max(0, expand - offset_y),
\* right = max(0, expand + offset_x), bottom = max(0, expand + offset_y), for all
\* values, fractional blur included.
C8_DropShadowCeil ==
    (EDone /\ eff.type = "dropShadow") =>
        LET expand == Ceil(eff.blur2 * 3, 2) + Abs(eff.spread)
        IN  eOut = [left   |-> Max(0, expand - eff.offset_x),
                    top    |-> Max(0, expand - eff.offset_y),
                    right  |-> Max(0, expand + eff.offset_x),
                    bottom |-> Max(0, expand + eff.offset_y)]

\* the effect DropShadowEffect(offset_x=10, offset_y=5, blur=8, spread=3)
IsC9Effect ==
    /\ eff.type = "dropShadow"
    /\ eff.offset_x = 10 /\ eff.offset_y = 5 /\ eff.blur2 = 16 /\ eff.spread = 3

C10_StrokeExpansion ==
    (EDone /\ eff.type = "stroke") =>
        /\ eff.position = "outside" => eOut = Uniform(eff.size)
        /\ eff.position = "inside" => eOut = Uniform(0)
        /\ eff.position = "center" => eOut = Uniform(Ceil(eff.size, 2))

\* C11: for every effect variant and all parameter values, negative blur, spread,
\* size and offsets included, each of the four margins returned by get_expansion
\* is >= 0.
C11_MarginsNonNegative ==
    EDone => eOut.left >= 0 /\ eOut.top >= 0 /\ eOut.right >= 0 /\ eOut.bottom >= 0

-----------------------------------------------------------------------------
(* Claims on the pixel difference *)

DiffDone == phase = "diff" /\ pc = "done"
AllPixels(img, p) == \A q \in (0..(img.w-1)) \X (0..(img.h-1)) : At(img, q) = p

\* C15: compute_pixel_diff(img, img2) returns a diff ratio of exactly 0.0 whenever
\* img2 is pixel-for-pixel identical to img, for any content and size.
C15_IdenticalIsZero ==
    (DiffDone /\ ret.fn = "compute_pixel_diff" /\ arg.img1 = arg.img2) =>
        ret.out.returned /\ ret.out.num = 0

C15_Witness ==
    /\ DiffDone /\ ret.fn = "compute_pixel_diff" /\ arg.img1 = arg.img2
    /\ arg.img1.w = DiffMaxW /\ arg.img1.h = DiffMaxH
    /\ At(arg.img1, <<0, 0>>) # At(arg.img1, <<1, 0>>)
    /\ ret.out.returned /\ ret.out.num = 0

\* C16 as stated: compute_pixel_diff of a pure-black image (every pixel 0,0,0,255) against a
\* pure-white image (every pixel 255,255,255,255) of the same size returns a diff
\* ratio greater than 0.9.
C16_BlackWhiteAbove90 ==
    (/\ DiffDone /\ ret.fn = "compute_pixel_diff"
     /\ arg.img1.w > 0 /\ ShapeOf(arg.img1) = ShapeOf(arg.img2)
     /\ AllPixels(arg.img1, Black) /\ AllPixels(arg.img2, White)) =>
        ret.out.returned /\ ret.out.num * 10 > 9 * ret.out.den

\* C16 (amended): compute_pixel_diff of a pure-black image against a pure-white
\* image of the same size (both opaque) returns a diff ratio of exactly 0.75.
C16_BlackWhiteIs75 ==
    (/\ DiffDone /\ ret.fn = "compute_pixel_diff"
     /\ arg.img1.w > 0 /\ ShapeOf(arg.img1) = ShapeOf(arg.img2)
     /\ AllPixels(arg.img1, Black) /\ AllPixels(arg.img2, White)) =>
        ret.out.returned /\ ret.out.num * 4 = 3 * ret.out.den

C16_Witness ==
    /\ DiffDone /\ ret.fn = "compute_pixel_diff"
    /\ arg.img1.w = DiffMaxW /\ arg.img1.h = DiffMaxH
    /\ ShapeOf(arg.img1) = ShapeOf(arg.img2)
    /\ AllPixels(arg.img1, Black) /\ AllPixels(arg.img2, White)
    /\ ret.out.num > 0 /\ ret.out.num * 4 = 3 * ret.out.den

\* C17: compute_pixel_diff and images_match raise an error whenever the shapes of
\* the two images differ in any dimension: no ratio or verdict is returned and
\* neither image is modified.
C17_ShapeMismatchRaises ==
    (DiffDone /\ ShapeOf(arg.img1) # ShapeOf(arg.img2)) =>
        /\ ret.out.error = "ValueError"
        /\ ~ret.out.returned
        /\ ret.img1 = arg.img1 /\ ret.img2 = arg.img2

C17_Witness ==
    /\ DiffDone /\ ret.fn = "images_match"
    /\ arg.img1.w = 1 /\ arg.img2.w = 2 /\ arg.img1.h = 2 /\ arg.img2.h = 2
    /\ ret.out.error = "ValueError"

-----------------------------------------------------------------------------
(* Claims on render_vector_layer *)

VectorDone == phase = "vector" /\ pc = "done"

\* the three cases of C20: no shapes, no backend, backend raising
NothingRendered ==
    \/ Get(arg.layer_data, "shapes", << >>) = << >>
    \/ arg.backend \in {"missing", "raises"}

\* the override, else the layer's value, else 100
Requested(o, key) == IF Given(o) THEN o[1] ELSE Get(arg.layer_data, key, 100)

\* the override when it is not zero, else the layer's value, else 100
RequestedNonZero(o, key) ==
    IF Given(o) /\ o[1] # 0 THEN o[1] ELSE Get(arg.layer_data, key, 100)

-----------------------------------------------------------------------------
(* Claims on the handling of render input *)

DocFinished == phase = "document" /\ pc \in {"done", "raised"}

DocLayersOf == Get(arg.doc, "layers", << >>)

\* a required field is missing: width, height or layers of the document, or the
\* imageData of a visible raster layer
Malformed ==
    \/ {"width", "height", "layers"} \ DOMAIN arg.doc # {}
    \/ \E i \in 1..Len(DocLayersOf) :
          /\ DocLayersOf[i].visible /\ DocLayersOf[i].type = "raster"
          /\ "imageData" \notin DOMAIN DocLayersOf[i]

\* C18: render_document on a document without width, height or layers, and
\* render_layer on a raster layer without imageData, fail with an error; no
\* default dimensions or blank layer are used instead.
C18_MalformedInputRejected ==
    (DocFinished /\ Malformed) => ret.error # None

\* rasterising the layer fails: corrupt image data, the text rasteriser raising,
\* or the vector backend raising
Fails(layer_data) ==
    \/ layer_data.type = "raster" /\ Get(layer_data, "imageData", "") = "corrupt"
    \/ layer_data.type = "text" /\ layer_data.raises
    \/ layer_data.type = "vector" /\ arg.backend = "raises"

\* C19: if rasterising any visible layer fails, render_document propagates the
\* error and returns no canvas; it never composites a blank layer in its place.
C19_LayerFailurePropagates ==
    (DocFinished /\ \E i \in 1..Len(DocLayersOf) :
                        DocLayersOf[i].visible /\ Fails(DocLayersOf[i]))
        => pc = "raised" /\ ret.error # None

-----------------------------------------------------------------------------
(* Claims on apply_filter *)

FilterDone == phase = "filter" /\ pc = "done"

\* the envelope the request format asks for: the length prefix, that many bytes
\* of JSON holding an object with width and height, and width*height*4 bytes
ValidEnvelope(body) ==
    /\ body.has_prefix /\ body.has_metadata
    /\ body.metadata.text = "object"
    /\ ~Falsy(body.metadata.width) /\ ~Falsy(body.metadata.height)
    /\ body.rgba = body.metadata.width[1] * body.metadata.height[1] * 4

\* C21: apply_filter answers with pixel bytes only when the filter is registered,
\* the envelope is valid and the filter returns an image of the input's shape;
\* otherwise it answers 404 (unknown filter), 400 (malformed envelope) or 500
\* (the filter fails or returns another shape), never an image, and the filter
\* is not run on a malformed envelope.
C21_StatusByCause ==
    FilterDone =>
        LET known == arg.filter_id \in filter_registry
            valid == ValidEnvelope(arg.body)
        IN  /\ ~known => ret.status = 404
            /\ (known /\ ~valid) => ret.status = 400
            /\ (known /\ valid /\ arg.behaviour # "same_shape") => ret.status = 500
            /\ (known /\ valid /\ arg.behaviour = "same_shape") => ret.status = 200
            /\ ret.content = "pixels" <=> ret.status = 200
            /\ ~(known /\ valid) => ~ret.ran

-----------------------------------------------------------------------------
(* Claims on the session manager *)

SessionScoped == EditorOperations \cup {"get"}

\* the last call was a session-scoped operation on an id that was not registered
OnUnregistered ==
    /\ phase = "session" /\ arg.op \in SessionScoped
    /\ arg.session_id \notin DOMAIN before.sessions

\* C22: every session-scoped operation on an id that is not registered (get,
\* execute_tool, execute_command, get_image, export_document, import_document,
\* get_config, set_config, the layer-effect calls) reports 'Session not found',
\* which the HTTP API returns as status 404, and leaves the registry unchanged:
\* no session is created and no other session is touched.
C22_SessionNotFound ==
    OnUnregistered =>
        /\ ret.error = "Session not found" /\ ret.status = 404 /\ ~ret.invoked
        /\ sessions = before.sessions

C22_Witness ==
    /\ OnUnregistered
    /\ arg.op = "set_config" /\ arg.session_id = "s2"
    /\ DOMAIN sessions = {"s1"} /\ sessions["s1"].editor = "e1"
    /\ ret.status = 404

-----------------------------------------------------------------------------
(* Claims on the blendMode of a layer *)

ModeDone == phase = "mode" /\ pc = "done"

\* C23: render_document accepts any blendMode string on a layer without error,
\* and its output does not depend on it: two documents that differ only in the
\* blendMode values of their layers render to identical buffers, equal to the
\* render with every blendMode 'normal'.
C23_BlendModeIgnored ==
    ModeDone => ret.error = None /\ ret.out = ret.other /\ ret.out = ret.normal

C23_Witness ==
    /\ ModeDone
    /\ Len(arg.layers) = 2
    /\ arg.layers[1].visible /\ arg.layers[1].blendMode = "no-such-mode"
    /\ arg.layers[2].visible /\ arg.layers[2].blendMode = "multiply"
    /\ arg.layers[2].opacity = 1
    /\ arg.other = <<"multiply", "normal">>
    /\ ret.out # Filled(CanvasW, CanvasH, arg.background_color)
    /\ ret.out = ret.other

-----------------------------------------------------------------------------
(* Claims on lanczos_resample_fast *)

FastDone == phase = "fast" /\ pc = "done"

\* C24: lanczos_resample_fast implements the same algorithm as lanczos_resample:
\* for every source image and destination size (with the kernel size a = 3), the
\* two functions return exactly the same pixel buffer.
C24_SameBuffer ==
    FastDone => ret.fast = ret.slow

-----------------------------------------------------------------------------
(* Claims on _build_path_d *)

PathDone == phase = "path" /\ pc = "done"

\* the segment the rule of C25 gives from point p to point q
ClaimedSegment(p, q) ==
    LET out == p.handleOut # << >>
        in == q.handleIn # << >>
        o == [x |-> p.x + p.handleOut[1].x, y |-> p.y + p.handleOut[1].y]
        i == [x |-> q.x + q.handleIn[1].x, y |-> q.y + q.handleIn[1].y]
    IN  IF out /\ in THEN <<"C", o.x, o.y, i.x, i.y, q.x, q.y>>
        ELSE IF out THEN <<"Q", o.x, o.y, q.x, q.y>>
        ELSE IF in THEN <<"Q", i.x, i.y, q.x, q.y>>
        ELSE <<"L", q.x, q.y>>

\* the commands C25 describes for n >= 2 points
ClaimedPath(shape) ==
    LET points == shape.points
        n == Len(points)
    IN  << <<"M", points[1].x, points[1].y>> >>
          \o [k \in 1..(n - 1) |-> ClaimedSegment(points[k], points[k + 1])]
          \o (IF shape.closed
              THEN <<ClaimedSegment(points[n], points[1]), <<"Z">> >>
              ELSE << >>)

\* C25: for a path of n >= 2 points, _build_path_d emits one move to the first
\* point and one segment per consecutive pair of points: 'C' when the start has
\* handleOut and the end has handleIn, 'Q' when exactly one of the two is
\* present, 'L' when neither is; whenever closed is true it also emits a closing
\* segment from the last point to the first by the same rule, followed by 'Z'.
\* With fewer than 2 points it emits nothing and the shape is omitted.
C25_PathCommands ==
    PathDone =>
        IF Len(arg.points) < 2 THEN ret.d = << >> /\ ret.omitted
        ELSE ret.d = ClaimedPath(arg) /\ ~ret.omitted

-----------------------------------------------------------------------------
(* Claims on the text layout *)

TextDone == phase = "text" /\ pc = "done"

\* the number of newline characters among the first n characters of text
RECURSIVE Newlines(_, _)
Newlines(text, n) ==
    IF n = 0 THEN 0 ELSE Newlines(text, n - 1) + (IF text[n] = "\n" THEN 1 ELSE 0)

RECURSIVE NewlinesOfRuns(_, _)
NewlinesOfRuns(runs, n) ==
    IF n = 0 THEN 0
    ELSE NewlinesOfRuns(runs, n - 1) + Newlines(runs[n].text, Len(runs[n].text))

\* the texts of the first n runs, one after the other
RECURSIVE TextOfRuns(_, _)
TextOfRuns(runs, n) == IF n = 0 THEN << >> ELSE TextOfRuns(runs, n - 1) \o runs[n].text

\* the fragments of the first n items of a line, one after the other
RECURSIVE TextOfLine(_, _)
TextOfLine(line_runs, n) ==
    IF n = 0 THEN << >> ELSE TextOfLine(line_runs, n - 1) \o line_runs[n].text

\* the first n lines, joined by newline characters
RECURSIVE TextOfLines(_, _)
TextOfLines(lines, n) ==
    IF n = 1 THEN TextOfLine(lines[1], Len(lines[1]))
    ELSE TextOfLines(lines, n - 1) \o <<"\n">> \o TextOfLine(lines[n], Len(lines[n]))

\* the largest fontSize among the runs on the line; the default for a line
\* without runs
LineMaxOfRuns(line_runs, default_font_size) ==
    IF line_runs = << >> THEN default_font_size
    ELSE LargestFontSize(line_runs, Len(line_runs), 0, default_font_size)

\* C26: measure_text_layer splits the runs into 1 + (number of newline characters
\* over all runs) lines, keeping each non-empty text fragment on its line in run
\* order, and gives every line the height (largest fontSize among the runs on
\* that line) * lineHeight, a line without runs using the layer's default
\* fontSize; the measured height is ceil(sum of the line heights) + 2*padding,
\* and render_text_layer lays out the same lines with the same heights.
C26_LinesAndHeights ==
    TextDone =>
        LET m == ret.measured
        IN  /\ Len(m.lines) = 1 + NewlinesOfRuns(arg.runs, Len(arg.runs))
            /\ TextOfLines(m.lines, Len(m.lines)) = TextOfRuns(arg.runs, Len(arg.runs))
            /\ \A k \in 1..Len(m.lines) :
                  /\ \A j \in 1..Len(m.lines[k]) : m.lines[k][j].text # << >>
                  /\ m.line_heights[k]
                        = LineMaxOfRuns(m.lines[k], arg.fontSize) * arg.lineHeight
            /\ m.height = Ceil(SeqSum(m.line_heights, Len(m.line_heights)), LineHeightDen)
                            + 2 * TextPadding
            /\ ret.rendered.lines = m.lines
            /\ ret.rendered.line_h = m.line_heights

-----------------------------------------------------------------------------
(* Claims on the preview cache *)

\* C27: across any interleaving of concurrent requests to get_filter_preview and
\* get_all_filter_previews, the preview of each registered filter is computed at
\* most once per process, and every request for the same filter id returns the
\* same cached data URL (the one stored by the first computation, also when that
\* computation fell back to the unfiltered sample image).
C27_ComputedOnce ==
    phase = "cache" =>
        /\ \A f \in filter_registry : computed[f] <= 1
        /\ \A r \in Requests : \A f \in DOMAIN requests.task[r].previews :
              /\ f \in DOMAIN preview_cache
              /\ requests.task[r].previews[f] = preview_cache[f]

C27_Witness ==
    /\ phase = "cache"
    /\ \A r \in Requests : requests.task[r].pc = "done"
    /\ requests.task[1].kind = "noise" /\ requests.task[2].kind = "all"
    /\ requests.task[3].kind = "noise"
    /\ computed = [f \in filter_registry |-> 1]
    /\ requests.task[1].previews["noise"] = "sample"
    /\ requests.task[2].previews["noise"] = "sample"
    /\ requests.task[3].previews["noise"] = "sample"
    /\ requests.task[2].previews["blur"] = "filtered-b"

-----------------------------------------------------------------------------
(* Claims on disconnected sessions *)

\* the session of id s is registered without a client and has been idle for
\* longer than the timeout
TimedOut(s) ==
    /\ phase = "session"
    /\ s \in DOMAIN sessions
    /\ sessions[s].client = None
    /\ now - sessions[s].last_activity > SessionTimeout

\* C28: a session whose client has disconnected is kept for a while and then
\* removed: if it receives no further activity, it is eventually deleted from
\* the session manager once it has been inactive longer than the 5-minute
\* session timeout.
C28_EventuallyRemoved ==
    \A s \in SessionIds : TimedOut(s) ~> ~TimedOut(s)

\* the session of id s had no client when the last call was made
DisconnectedBefore(s) ==
    /\ phase = "session"
    /\ s \in DOMAIN before.sessions
    /\ before.sessions[s].client = None

\* the last call was an editor operation on s
EditorOperationOn(s) == arg.op \in EditorOperations /\ arg.session_id = s

\* the last call was register with the id s
RegisteredAgain(s) == arg.op = "register" /\ arg.session_id = s

\* an editor operation on a session without editor: the error, no call of the
\* editor, and nothing of the registry changed, last_activity included
NotConnected(s) ==
    EditorOperationOn(s) =>
        /\ ret.error = "Editor not connected"
        /\ ~ret.invoked
        /\ sessions = before.sessions

\* register with the id of a session re-attaches client and editor to it
Reattached(s) ==
    RegisteredAgain(s) =>
        /\ s \in DOMAIN sessions
        /\ sessions[s].client # None /\ sessions[s].editor # None
        /\ sessions[s].state = before.sessions[s].state
        /\ sessions[s].created_at = before.sessions[s].created_at

\* C29 as stated: between a client's disconnect and the next register call with
\* the same session id, the session stays registered with its state and
\* created_at unchanged, and every editor operation on it returns the error
\* 'Editor not connected' without invoking the editor and without refreshing
\* last_activity; register with the same id then re-attaches client and editor
\* to the same session object, keeping its state.
C29_StaysRegistered ==
    \A s \in SessionIds :
        DisconnectedBefore(s) =>
            /\ s \in DOMAIN sessions
            /\ sessions[s].state = before.sessions[s].state
            /\ sessions[s].created_at = before.sessions[s].created_at
            /\ NotConnected(s)
            /\ Reattached(s)

\* C29, amended: between a client's disconnect and the next register call with
\* the same session id, the session is removed only by unregister or
\* cleanup_inactive; while it is registered its created_at is unchanged, its
\* state changes only by update_state and it gets a client only by register;
\* every editor operation on it returns 'Editor not connected' without invoking
\* the editor and without refreshing last_activity; register with the same id
\* re-attaches client and editor to the same session, keeping its state.
C29_DisconnectedSession ==
    \A s \in SessionIds :
        DisconnectedBefore(s) =>
            /\ s \notin DOMAIN sessions =>
                  \/ arg.op = "cleanup_inactive"
                  \/ arg.op = "unregister" /\ arg.session_id = s
            /\ s \in DOMAIN sessions =>
                  /\ sessions[s].created_at = before.sessions[s].created_at
                  /\ sessions[s].state # before.sessions[s].state =>
                        arg.op = "update_state" /\ arg.session_id = s
                  /\ sessions[s].client # None => RegisteredAgain(s)
            /\ NotConnected(s)
            /\ Reattached(s)

C29_Witness ==
    /\ DisconnectedBefore("s1")
    /\ RegisteredAgain("s1")
    /\ before.sessions["s1"].state.active_tool = "eraser"
    /\ before.sessions["s1"].last_activity = 5
    /\ now = 10
    /\ sessions["s1"].client = "c2" /\ sessions["s1"].editor = "e2"
    /\ sessions["s1"].state.active_tool = "eraser"
    /\ sessions["s1"].created_at = 0
    /\ sessions["s1"].last_activity = 10

\* C30: cleanup_inactive removes a session only if its client is None and its
\* last_activity is older than the 5-minute timeout; after any sequence of
\* register, update_state, disconnect and cleanup_inactive calls, a session with
\* a connected client is never removed however long it is idle, a recently
\* active disconnected session is kept, and the state of every remaining
\* session is unchanged by the cleanup.
C30_CleanupInactive ==
    (phase = "session" /\ arg.op = "cleanup_inactive") =>
        /\ DOMAIN sessions \subseteq DOMAIN before.sessions
        /\ \A s \in DOMAIN before.sessions :
              LET session == before.sessions[s]
                  idle == before.now - session.last_activity
              IN  /\ s \notin DOMAIN sessions =>
                        session.client = None /\ idle > SessionTimeout
                  /\ session.client # None => s \in DOMAIN sessions
                  /\ idle <= SessionTimeout => s \in DOMAIN sessions
                  /\ s \in DOMAIN sessions => sessions[s] = session

C30_Witness ==
    /\ phase = "session" /\ arg.op = "cleanup_inactive"
    /\ before.now = 10
    /\ DOMAIN before.sessions = {"s1", "s2"}
    /\ before.sessions["s1"].client = None /\ before.sessions["s1"].last_activity = 0
    /\ before.sessions["s2"].client = "c2" /\ before.sessions["s2"].last_activity = 0
    /\ before.sessions["s2"].state.active_tool = "eraser"
    /\ DOMAIN sessions = {"s2"}
    /\ sessions["s2"] = before.sessions["s2"]

-----------------------------------------------------------------------------
(* Claims on the expansion of a layer *)

LayerDone == phase = "layer" /\ pc = "done"

EnabledOf(effects) == {i \in 1..Len(effects) : effects[i].enabled}

\* the largest element of a non-empty finite set of integers
Largest(S) == CHOOSE m \in S : \A x \in S : m >= x

\* C12: the expansion of a layer carrying several effects is, on each side
\* separately, the maximum (not the sum) of get_expansion over the enabled
\* effects; a disabled effect contributes nothing on any side and stays in the
\* effect list.
C12_PerSideMaximum ==
    LayerDone =>
        /\ \A sd \in Sides :
              ret.expansion[sd] =
                  Largest({0} \cup {get_expansion(arg[i])[sd] : i \in EnabledOf(arg)})
        /\ ret.expansion = LayerExpansion(SelectSeq(arg, LAMBDA e : e.enabled))
        /\ ret.effects = arg

C12_Witness ==
    /\ LayerDone
    /\ Len(arg) = 3
    /\ arg[1].type = "dropShadow" /\ arg[1].enabled
    /\ arg[2].type = "outerGlow" /\ ~arg[2].enabled
    /\ arg[3].type = "stroke" /\ arg[3].enabled
    /\ ret.expansion = [left |-> 4, top |-> 5, right |-> 14, bottom |-> 13]

-----------------------------------------------------------------------------
(* Claims on the serialization of effects *)

SDone == phase = "serial" /\ pc = "done"

\* C13: for each of the 7 effect variants and any field values,
\* deserialize_effect(e.to_dict()) is an effect of the same variant equal to e in
\* every field, and its to_dict equals e.to_dict().
C13_RoundTrip ==
    (SDone /\ ret.data = to_dict(arg)) =>
        /\ ret.found
        /\ ret.effect.type = arg.type
        /\ ret.effect = arg
        /\ to_dict(ret.effect) = to_dict(arg)

C13_Witness ==
    /\ SDone /\ ret.data = to_dict(arg)
    /\ arg.type = "bevelEmboss" /\ arg.style = "outerBevel" /\ arg.shadow_opacity = 20
    /\ ~arg.enabled /\ arg.blend_mode = "multiply" /\ arg.opacity = 50
    /\ ret.found /\ ret.effect = arg

\* C14: an effect built by deserialize_effect / from_dict carries a non-empty
\* string id, also when the dictionary has no 'id' key, for each of the 7
\* variants.
C14_IdNeverMissing ==
    (SDone /\ ret.found) => ret.effect.id \in Uuids

-----------------------------------------------------------------------------
\* render_document
Spec == InitRender /\ [][NextRender]_vars

\* blend_layers
SpecBlend == InitBlend /\ [][NextBlend]_vars

\* two interleaved render_document calls
SpecConc == InitConc /\ [][NextConc]_vars

\* lanczos_resample
SpecLanczos == InitLanczos /\ [][NextLanczos]_vars

\* get_expansion of the layer effects
SpecEffects == InitEffect /\ [][NextEffect]_vars

\* the expansion of a layer with several effects
SpecLayer == InitLayer /\ [][NextLayer]_vars

\* compute_pixel_diff and images_match
SpecDiff == InitDiff /\ [][NextDiff]_vars

\* render_vector_layer
SpecVector == InitVector /\ [][NextVector]_vars

\* render_document on documents that may be malformed
SpecDoc == InitDoc /\ [][NextDoc]_vars

\* apply_filter
SpecFilter == InitFilter /\ [][NextFilter]_vars

\* the session manager under calls of its callers, with the clock
SpecSession == InitSession /\ [][NextSession]_vars

\* render_document on documents differing in blendMode
SpecMode == InitMode /\ [][NextMode]_vars

\* lanczos_resample_fast beside lanczos_resample
SpecFast == InitFast /\ [][NextFast]_vars

\* _build_path_d
SpecPath == InitPath /\ [][NextPath]_vars

\* measure_text_layer and render_text_layer
SpecText == InitText /\ [][NextText]_vars

\* concurrent preview requests on the event loop
SpecCache == InitCache /\ [][NextCache]_vars

\* the session manager while time passes: nothing in the program calls
\* cleanup_inactive (_cleanup_task is never created), so only the clock is fair
SpecSessionLive == InitSession /\ [][NextSession]_vars /\ WF_vars(Tick)

\* to_dict and deserialize_effect
SpecSerial == InitSerial /\ [][NextSerial]_vars

====
